---- MODULE Spec2Model ----
(***************************************************************************)
(* Cross-channel translation sync pipeline of ai-dungeon-dc-bot:           *)
(*   AvatarCleanupService  (src/src/sync-translate/emoji-sync.service.ts)  *)
(*   MessageQueue / MessageQueueManager        (src/unnamed/part_003)      *)
(*   SyncMessageService    (src/src/sync-translate/sync-message.service.ts)*)
(*   TranslateLLMService                       (src/unnamed/part_006)      *)
(* The program runs on one event loop: an action below is the code that    *)
(* runs between two suspension points (await of I/O or a timer).           *)
(***************************************************************************)
EXTENDS Integers, Sequences, FiniteSets, TLC

(***************************************************************************)
(* Bounds of the model.                                                    *)
(***************************************************************************)
MaxMsgs == 2
MaxTimers == 2
MaxCalls == 5
MaxApiPaths == 1
MaxClones == 2
MaxRequests == 2
MaxTicks == 4

Msgs == 1..MaxMsgs
Paths == 1..MaxMsgs
ApiPaths == 1..MaxApiPaths
TimerIds == 1..MaxTimers
NoPath == 0
NoTimer == 0
NoMsg == 0
Channels == {"A", "B", "C"}
NoLanguage == "null"

\* The slash-command interactions whose handler can be awaiting a call.
Interactions == {"i1", "i2"}
\* No call awaited; `last` is what the interaction's last call did (history).
NoCall == [op |-> "none", last |-> "none"]

NoWebhook == 0
\* No getOrCreateWebhook call made yet.
NoWebhookCall == [pc |-> "idle"]

VARIABLES
    \* SyncStorageService: the stored sync groups, in the order of the JSON object
    syncData,
    \* the messageCreate events received so far; message m is messages[m]
    messages,
    \* SyncMessageService, one handleMessage invocation per message
    pc,                \* m -> the await the invocation is suspended in
    nextTarget,        \* m -> index of the target channel translateAndQueue works on
    userProfile,       \* m -> userProfile.profilePicturePath (NoPath: undefined)
    \* MessageQueueManager.queues: one MessageQueue per target channel
    queue,             \* channelId -> MessageQueue.queue
    processing,        \* channelId -> MessageQueue.processing
    sending,           \* m -> the sendTranslatedMessage call that the processQueue
                       \*      invocation awaited by handler m is suspended in
    \* EmojiSyncService
    temporaryEmojis,   \* the tracked clones (values of the Map, one per key)
    emojiCleanups,     \* the pending setTimeout callbacks of scheduleEmojiCleanup
    clonesMade,        \* number of emojis created in target guilds so far
    bridge,            \* the extractAndCloneEmojis call under way, if any
    \* Discord: the guilds the bot is in
    guildEmojis,       \* guildId -> the emojis of the guild (guild.emojis.cache)
    guildInfo,         \* guildId -> the bot's permission, premiumTier, other emojis
    \* observers of EmojiSyncService (history, not program state)
    tokenLog,          \* what the call under way did with each token, in order
    process,           \* the process: running or exited, and a cleanupAll under way
    cleanupLog,        \* the cleanupEmoji calls made: which clone, by whom, deleted or not
    \* observers of the pipeline (history, not program state)
    sentLog,           \* channelId -> the messages whose send was started, in order
    enqueued,          \* m -> channelId -> number of deliveries addToQueue received
    deliveryLog,       \* the deliveries addToQueue received, with how they were translated
    \* TranslateLLMService
    llmCalls,          \* number of TranslateLLMService.translate calls made so far
    translation,       \* call r -> where its link of the translationQueue chain stands
    outstanding,       \* the generateText requests the provider has not settled
    now,               \* Date.now()
    lastTranslationTime,
    dispatchLog,       \* observer: the generateText calls made, in order, with their time
    \* the validators of the two translators, applied to one request
    validationRequest, \* the request handed to validateRequest
    validationResult,  \* what each validateRequest did with it
    \* AvatarCleanupService
    pendingCleanups,   \* filePath -> reference count (0: no entry in the Map)
    cleanupTimeouts,   \* filePath -> timer handle stored in the Map (NoTimer: no entry)
    timers,            \* the setTimeout callbacks of removeReference that have not returned
    fileExists,        \* filePath -> the downloaded avatar file is on disk
    \* observers of AvatarCleanupService (history, not program state)
    deletions,         \* filePath -> number of times the file was removed from disk
    addCalls,          \* filePath -> number of addReference calls
    removeCalls,       \* filePath -> number of removeReference calls
    orderly,           \* filePath -> the calls so far are k addReference, then <= k removeReference
    avatarCalls,       \* the forceCleanup / cleanupAll calls suspended in their await
    \* SyncStorageService: the addChannelToGroup / removeChannelFromGroup calls
    storageCalls,      \* interaction -> the call it awaits, with the data it loaded
    \* WebhookService and Discord, for one channel
    webhookCache,      \* webhookCache[channelId] (NoWebhook: no entry)
    channelWebhooks,   \* the webhooks of the channel at Discord
    webhookCall        \* the getOrCreateWebhook call: where it is suspended, what it returned

avatarVars == <<pendingCleanups, cleanupTimeouts, timers, fileExists,
                deletions, addCalls, removeCalls, orderly>>

configVars == <<syncData, messages>>
handlerVars == <<pc, nextTarget, userProfile>>
queueVars == <<queue, processing, sending, sentLog, enqueued, deliveryLog>>
\* what a send leaves alone of EmojiSyncService's state unless it clones
cloneVars == <<temporaryEmojis, clonesMade, guildEmojis, cleanupLog>>
emojiVars == <<cloneVars, emojiCleanups>>
pipelineVars == <<configVars, handlerVars, queueVars, emojiVars>>

validationVars == <<validationRequest, validationResult>>
serviceVars == <<llmCalls, translation, outstanding, now, lastTranslationTime, dispatchLog>>
\* bridgeVars: EmojiSyncService.extractAndCloneEmojis in detail and the guilds;
\* the pipeline's specifications take its result as an input of SendEmojis.
bridgeVars == <<bridge, guildInfo, tokenLog, process>>
\* llmVars: the translator, and what is modelled on its own beside it.
webhookVars == <<webhookCache, channelWebhooks, webhookCall>>
\* asideVars: the calls that are modelled on their own, outside the pipeline.
asideVars == <<avatarCalls, storageCalls, webhookCache, channelWebhooks, webhookCall>>
llmVars == <<serviceVars, validationVars, bridgeVars, asideVars>>

vars == <<pipelineVars, avatarVars, llmVars>>

(***************************************************************************)
(* AvatarCleanupService.  The operators work on a record of the service's  *)
(* tables so that one step of a caller can apply several calls in a row.   *)
(***************************************************************************)
AvatarState ==
    [pendingCleanups |-> pendingCleanups, cleanupTimeouts |-> cleanupTimeouts,
     timers |-> timers, addCalls |-> addCalls, removeCalls |-> removeCalls,
     orderly |-> orderly]

SetAvatarState(s) ==
    /\ pendingCleanups' = s.pendingCleanups
    /\ cleanupTimeouts' = s.cleanupTimeouts
    /\ timers' = s.timers
    /\ addCalls' = s.addCalls
    /\ removeCalls' = s.removeCalls
    /\ orderly' = s.orderly

\* clearTimeout(handle): a callback that has not started is dropped; a handle
\* whose callback already runs (or ran) is unaffected.
clearTimeout(tm, id) == {t \in tm : ~(t.id = id /\ t.state = "pending")}

FreeTimerIds(tm) == {i \in TimerIds : \A t \in tm : t.id # i}

\* setTimeout returns a handle distinct from every live one.
CanSetTimeout(tm) == FreeTimerIds(tm) # {}

NewTimerId(tm) == CHOOSE i \in FreeTimerIds(tm) : \A j \in FreeTimerIds(tm) : i <= j

addReference(s, filePath) ==
    IF filePath = NoPath THEN s
    ELSE LET currentCount == s.pendingCleanups[filePath]
             existingTimeout == s.cleanupTimeouts[filePath]
         IN  [s EXCEPT
                !.pendingCleanups[filePath] = currentCount + 1,
                !.timers = IF existingTimeout # NoTimer
                           THEN clearTimeout(s.timers, existingTimeout) ELSE @,
                !.cleanupTimeouts[filePath] = NoTimer,
                !.addCalls[filePath] = @ + 1,
                !.orderly[filePath] = @ /\ s.removeCalls[filePath] = 0]

Max(a, b) == IF a >= b THEN a ELSE b

\* A plausible slip: the deletion is scheduled one reference too early.
RemoveSchedules_early(s, filePath) ==
    filePath # NoPath /\ Max(0, s.pendingCleanups[filePath] - 1) <= 1

\* removeReference, `if (newCount === 0)`: the branch that schedules the deletion.
RemoveSchedules(s, filePath) ==
    filePath # NoPath /\ Max(0, s.pendingCleanups[filePath] - 1) = 0

removeReference(s, filePath) ==
    IF filePath = NoPath THEN s
    ELSE LET currentCount == s.pendingCleanups[filePath]
             newCount == Max(0, currentCount - 1)
             timeout == NewTimerId(s.timers)
         IN  IF RemoveSchedules(s, filePath)
             THEN [s EXCEPT
                     !.pendingCleanups[filePath] = 0,
                     !.timers = @ \cup {[id |-> timeout, path |-> filePath, state |-> "pending"]},
                     !.cleanupTimeouts[filePath] = timeout,
                     !.removeCalls[filePath] = @ + 1,
                     !.orderly[filePath] = @ /\ s.removeCalls[filePath] < s.addCalls[filePath]]
             ELSE [s EXCEPT
                     !.pendingCleanups[filePath] = newCount,
                     !.removeCalls[filePath] = @ + 1,
                     !.orderly[filePath] = @ /\ s.removeCalls[filePath] < s.addCalls[filePath]]

\* The setTimeout callback of removeReference starts: it calls
\* UserUtils.deleteProfilePicture and is suspended in it.
TimerFire(t) ==
    /\ t \in timers /\ t.state = "pending"
    /\ timers' = (timers \ {t}) \cup {[t EXCEPT !.state = "running"]}
    /\ UNCHANGED <<pendingCleanups, cleanupTimeouts, fileExists, deletions,
                   addCalls, removeCalls, orderly, pipelineVars, llmVars>>

\* UserUtils.deleteProfilePicture: removes the file when it exists.
deleteProfilePicture(exists, filePath) == [exists EXCEPT ![filePath] = FALSE]

\* deleteProfilePicture returns to the callback, which then drops the Map
\* entry of the path (whichever handle it holds).
TimerDone(t) ==
    /\ t \in timers /\ t.state = "running"
    /\ fileExists' = deleteProfilePicture(fileExists, t.path)
    /\ deletions' = [deletions EXCEPT ![t.path] = IF fileExists[t.path] THEN @ + 1 ELSE @]
    /\ cleanupTimeouts' = [cleanupTimeouts EXCEPT ![t.path] = NoTimer]
    /\ timers' = timers \ {t}
    /\ UNCHANGED <<pendingCleanups, addCalls, removeCalls, orderly, pipelineVars, llmVars>>

InitAvatarTables ==
    /\ pendingCleanups = [p \in Paths |-> 0]
    /\ cleanupTimeouts = [p \in Paths |-> NoTimer]
    /\ timers = {}
    /\ deletions = [p \in Paths |-> 0]
    /\ addCalls = [p \in Paths |-> 0]
    /\ removeCalls = [p \in Paths |-> 0]
    /\ orderly = [p \in Paths |-> TRUE]
    /\ avatarCalls = {}
    /\ storageCalls = [i \in Interactions |-> NoCall]
    /\ webhookCache = NoWebhook
    /\ channelWebhooks = {}
    /\ webhookCall = NoWebhookCall

TimersOf(p) == {t \in timers : t.path = p}

(***************************************************************************)
(* TranslateLLMService: translate chains every call on the promise         *)
(* translationQueue; executeTranslation runs when the link before it is    *)
(* fulfilled.  Date.now() is the variable `now` (ms); a setTimeout callback *)
(* runs when its delay has elapsed, the provider answers when it likes.    *)
(***************************************************************************)
MAX_RETRIES == 3
RATE_LIMIT_MS == 1000
TIMEOUT_MS == 30000

\* Resolution of the clock of the model (ms): half the rate limit.
TickMs == RATE_LIMIT_MS \div 2

\* Date.now() when the service is loaded: lastTranslationTime starts at 0 and
\* the epoch is long ago, so the first call never waits.
StartTime == RATE_LIMIT_MS

Requests == 1..MaxRequests

(***************************************************************************)
(* validateRequest of the two translators.  A text is what the checks look *)
(* at: its JavaScript type, its length and whether trim() leaves nothing;  *)
(* a language is a code or undefined.                                      *)
(***************************************************************************)
LLM_MAX_TEXT == 4000
GOOGLE_MAX_TEXT == 5000

Undefined == [type |-> "undefined", length |-> 0, blank |-> TRUE]
NotAString == [type |-> "number", length |-> 0, blank |-> FALSE]
String(length, blank) == [type |-> "string", length |-> length, blank |-> blank]

\* The lengths on both sides of each limit.
TextLengths == {0, 1, LLM_MAX_TEXT, LLM_MAX_TEXT + 1, GOOGLE_MAX_TEXT, GOOGLE_MAX_TEXT + 1}
Texts ==
    {Undefined, NotAString}
        \cup {String(n, blank) : n \in TextLengths \ {0}, blank \in BOOLEAN}
        \cup {String(0, TRUE)}

NoCode == "undefined"
SupportedLanguages == {"en", "es", "fr", "auto"}
isLanguageSupported(languageCode) == languageCode \in SupportedLanguages

TranslationRequests ==
    [text : Texts, targetLanguage : {NoCode, "es", "xx"},
     originLanguage : {NoCode, "en", "xx"}]

\* !request.text: undefined and the empty string are falsy.
falsyText(text) == text.type = "undefined" \/ (text.type = "string" /\ text.length = 0)

Valid == "valid"

\* TranslateLLMService.validateRequest: the message of the Error it throws, or
\* Valid when it returns.
TranslateLLMService_validateRequest(request) ==
    IF falsyText(request.text) \/ request.text.type # "string"
    THEN "Text is required and must be a non-empty string"
    ELSE IF request.text.blank
    THEN "Text cannot be empty or contain only whitespace"
    ELSE IF request.text.length > LLM_MAX_TEXT
    THEN "Text is too long (maximum 4000 characters for LLM translation)"
    ELSE IF request.targetLanguage = NoCode
    THEN "Target language is required and must be a string"
    ELSE IF ~isLanguageSupported(request.targetLanguage)
    THEN "Unsupported target language"
    ELSE IF request.originLanguage # NoCode /\ ~isLanguageSupported(request.originLanguage)
    THEN "Unsupported origin language"
    ELSE Valid

\* TranslationService.validateRequest, likewise.
TranslationService_validateRequest(request) ==
    IF falsyText(request.text) \/ request.text.type # "string"
    THEN "Text is required and must be a non-empty string"
    ELSE IF request.text.blank
    THEN "Text cannot be empty or contain only whitespace"
    ELSE IF request.text.length > GOOGLE_MAX_TEXT
    THEN "Text is too long (maximum 5000 characters)"
    ELSE IF request.targetLanguage = NoCode
    THEN "Target language is required and must be a string"
    ELSE IF ~isLanguageSupported(request.targetLanguage)
    THEN "Unsupported target language"
    ELSE IF request.originLanguage # NoCode /\ ~isLanguageSupported(request.originLanguage)
    THEN "Unsupported origin language"
    ELSE Valid

NoRequest == [text |-> Undefined, targetLanguage |-> NoCode, originLanguage |-> NoCode]
NotCalled == "not called"
NotValidated == [llm |-> NotCalled, google |-> NotCalled]

ValidateLLM ==
    /\ validationResult.llm = NotCalled
    /\ validationResult' =
           [validationResult EXCEPT !.llm = TranslateLLMService_validateRequest(validationRequest)]
    /\ UNCHANGED <<validationRequest, asideVars, serviceVars, bridgeVars, pipelineVars, avatarVars>>

ValidateGoogle ==
    /\ validationResult.google = NotCalled
    /\ validationResult' =
           [validationResult EXCEPT !.google = TranslationService_validateRequest(validationRequest)]
    /\ UNCHANGED <<validationRequest, asideVars, serviceVars, bridgeVars, pipelineVars, avatarVars>>

RECURSIVE Pow(_, _)
Pow(b, e) == IF e = 0 THEN 1 ELSE b * Pow(b, e - 1)

\* A plausible slip: one backoff for every class of failure.
waitTime_oneClass(isTimeout, attempt) == Pow(2, attempt) * 1000

\* executeTranslation, the wait before a retry (in ms).
waitTime(isTimeout, attempt) ==
    IF isTimeout THEN Pow(3, attempt) * 2000 ELSE Pow(2, attempt) * 1000

\* wakeAt: when the pending setTimeout of the call (rate limit, backoff) is due;
\* timeoutAt: when the timeout promise of the attempt under way rejects;
\* isTimeout: what isTimeoutError said of the failure being waited out;
\* caller, target: the handler that awaits the promise and the target it
\* translates for (NoMsg: a caller outside the pipeline).
NoTranslation == [state |-> "none", valid |-> TRUE, attempt |-> 0, waitTime |-> 0,
                  isTimeout |-> FALSE, wakeAt |-> 0, timeoutAt |-> 0,
                  caller |-> NoMsg, target |-> 0]

InitTranslator ==
    /\ llmCalls = 0
    /\ translation = [r \in Requests |-> NoTranslation]
    /\ outstanding = {}
    /\ now = StartTime
    /\ lastTranslationTime = 0
    /\ dispatchLog = <<>>

InitLLM ==
    /\ InitTranslator
    /\ validationRequest = NoRequest
    /\ validationResult = NotValidated

LLMState == [translation |-> translation, outstanding |-> outstanding, now |-> now,
             lastTranslationTime |-> lastTranslationTime, dispatchLog |-> dispatchLog]

SetLLMState(s) ==
    /\ translation' = s.translation
    /\ outstanding' = s.outstanding
    /\ lastTranslationTime' = s.lastTranslationTime
    /\ dispatchLog' = s.dispatchLog
    /\ UNCHANGED <<validationVars, asideVars, bridgeVars>>

\* One pass of the retry loop starts: generateText is called and awaited
\* (raced against the timeout promise).
startAttempt(s, r, attempt) ==
    [s EXCEPT !.translation[r].state = "calling",
              !.translation[r].attempt = attempt,
              !.translation[r].waitTime = 0,
              !.translation[r].isTimeout = FALSE,
              !.translation[r].wakeAt = 0,
              !.translation[r].timeoutAt = s.now + TIMEOUT_MS,
              !.outstanding = @ \cup {[request |-> r, attempt |-> attempt]},
              !.dispatchLog = Append(@, [request |-> r, attempt |-> attempt, time |-> s.now])]

\* The promise of call r is rejected: every later link of the chain that waits
\* for it is rejected with it, its callback never runs.
RECURSIVE rejectFrom(_, _)
rejectFrom(s, r) ==
    LET s1 == [s EXCEPT !.translation[r].state = "rejected",
                        !.translation[r].wakeAt = 0,
                        !.translation[r].timeoutAt = 0]
    IN  IF r + 1 \in Requests /\ s.translation[r + 1].state = "waiting"
        THEN rejectFrom(s1, r + 1) ELSE s1

\* A plausible slip: the request is sent without being validated.
afterRateLimit_unchecked(s, r) ==
    LET s1 == [s EXCEPT !.lastTranslationTime = s.now, !.translation[r].wakeAt = 0]
    IN  startAttempt(s1, r, 1)

\* executeTranslation after the rate limit: lastTranslationTime is stamped,
\* then validateRequest, then the first attempt.
afterRateLimit(s, r) ==
    LET s1 == [s EXCEPT !.lastTranslationTime = s.now, !.translation[r].wakeAt = 0]
    IN  IF ~s.translation[r].valid THEN rejectFrom(s1, r) ELSE startAttempt(s1, r, 1)

\* The callback of link r runs: executeTranslation up to its first await.
executeTranslation(s, r) ==
    LET timeSinceLastTranslation == s.now - s.lastTranslationTime
    IN  IF timeSinceLastTranslation < RATE_LIMIT_MS
        THEN [s EXCEPT !.translation[r].state = "rateLimit",
                       !.translation[r].wakeAt =
                           s.now + (RATE_LIMIT_MS - timeSinceLastTranslation)]
        ELSE afterRateLimit(s, r)

\* The promise of call r is fulfilled: the next link, if it waits, runs.
fulfil(s, r) ==
    LET s1 == [s EXCEPT !.translation[r].state = "fulfilled",
                        !.translation[r].timeoutAt = 0]
    IN  IF r + 1 \in Requests /\ s.translation[r + 1].state = "waiting"
        THEN executeTranslation(s1, r + 1) ELSE s1

\* A plausible slip: the loop bound is off by one.
attemptFailed_oneMore(s, r, isTimeout) ==
    LET attempt == s.translation[r].attempt
    IN  IF attempt <= MAX_RETRIES
        THEN [s EXCEPT !.translation[r].state = "backoff",
                       !.translation[r].waitTime = waitTime(isTimeout, attempt),
                       !.translation[r].isTimeout = isTimeout,
                       !.translation[r].wakeAt = s.now + waitTime(isTimeout, attempt),
                       !.translation[r].timeoutAt = 0]
        ELSE rejectFrom(s, r)

\* The catch block of the retry loop: wait and retry, or give up.
attemptFailed(s, r, isTimeout) ==
    LET attempt == s.translation[r].attempt
    IN  IF attempt < MAX_RETRIES
        THEN [s EXCEPT !.translation[r].state = "backoff",
                       !.translation[r].waitTime = waitTime(isTimeout, attempt),
                       !.translation[r].isTimeout = isTimeout,
                       !.translation[r].wakeAt = s.now + waitTime(isTimeout, attempt),
                       !.translation[r].timeoutAt = 0]
        ELSE rejectFrom(s, r)

\* translate(request) on a record of the service's state; r is the new link.
translate(s, r, valid, caller, target) ==
    LET s1 == [s EXCEPT !.translation[r] = [NoTranslation EXCEPT !.valid = valid,
                                                                 !.state = "waiting",
                                                                 !.caller = caller,
                                                                 !.target = target]]
        before == IF r = 1 THEN "fulfilled" ELSE s.translation[r - 1].state
    IN  CASE before = "fulfilled" -> executeTranslation(s1, r)
          [] before = "rejected" -> rejectFrom(s1, r)
          [] OTHER -> s1

\* TranslateLLMService.translate(request): the call is chained on translationQueue.
Translate(valid) ==
    LET r == llmCalls + 1
    IN  /\ r <= MaxRequests
        /\ llmCalls' = r
        /\ SetLLMState(translate(LLMState, r, valid, NoMsg, 0))
        /\ UNCHANGED <<now, pipelineVars, avatarVars>>

\* The setTimeout of the rate limit has elapsed.
RateLimitElapsed(r) ==
    /\ translation[r].state = "rateLimit"
    /\ now >= translation[r].wakeAt
    /\ SetLLMState(afterRateLimit(LLMState, r))
    /\ UNCHANGED <<now, llmCalls, pipelineVars, avatarVars>>

\* The provider settles a generateText request. If executeTranslation still
\* awaits it, the attempt succeeds or fails (isTimeoutError looks at the
\* message of the error); a request that lost the race to its timeout has no
\* one waiting for it any more.
ProviderSettles(call, ok, isTimeout) ==
    LET r == call.request
        awaited == translation[r].state = "calling" /\ translation[r].attempt = call.attempt
        s1 == [LLMState EXCEPT !.outstanding = @ \ {call}]
    IN  /\ call \in outstanding
        /\ SetLLMState(IF ~awaited THEN s1
                       ELSE IF ok THEN fulfil(s1, r)
                       ELSE attemptFailed(s1, r, isTimeout))
        /\ UNCHANGED <<now, llmCalls, pipelineVars, avatarVars>>

\* The timeout promise wins the race of Promise.race: the attempt fails with
\* "Translation timeout after 30000ms"; the generateText request goes on.
AttemptTimesOut(r) ==
    /\ translation[r].state = "calling"
    /\ now >= translation[r].timeoutAt
    /\ [request |-> r, attempt |-> translation[r].attempt] \in outstanding
    /\ SetLLMState(attemptFailed(LLMState, r, TRUE))
    /\ UNCHANGED <<now, llmCalls, pipelineVars, avatarVars>>

\* The wait before the retry has elapsed: the next pass of the loop.
BackoffElapsed(r) ==
    /\ translation[r].state = "backoff"
    /\ now >= translation[r].wakeAt
    /\ SetLLMState(startAttempt(LLMState, r, translation[r].attempt + 1))
    /\ UNCHANGED <<now, llmCalls, pipelineVars, avatarVars>>

\* The times at which a pending setTimeout of the service is due.
Deadlines ==
    {translation[r].wakeAt : r \in {q \in Requests : translation[q].state \in {"rateLimit", "backoff"}}}
        \cup {translation[r].timeoutAt : r \in {q \in Requests : translation[q].state = "calling"}}

\* The delays after which a pending setTimeout of the service is due.
LeapSteps == {dl - now : dl \in Deadlines}
\* The same without the timeout promises, and the tick.
TickSteps ==
    {TickMs} \cup {translation[r].wakeAt - now :
                      r \in {q \in Requests : translation[q].state \in {"rateLimit", "backoff"}}}

\* Time passes, by one tick or up to the next pending timer; never past a
\* timer that is due (its callback runs first).
Tick(d) ==
    /\ d > 0
    /\ d = TickMs \/ now + d \in Deadlines
    /\ d = TickMs => now + d <= StartTime + MaxTicks * TickMs
    /\ \A dl \in Deadlines : now + d <= dl
    /\ now' = now + d
    /\ UNCHANGED <<llmCalls, translation, outstanding, lastTranslationTime, dispatchLog,
                   validationVars, asideVars, bridgeVars, pipelineVars, avatarVars>>

(***************************************************************************)
(* SyncStorageService: the stored configuration and the lookups on it.     *)
(***************************************************************************)
ChannelLanguageConfig(ch, lang) == [channelId |-> ch, language |-> lang]
SyncGroup(id, chans) == [groupId |-> id, channels |-> chans]

\* The configurations a server can have stored (one server; its groups in the
\* order of Object.entries): two channels; a member with the source's language
\* in another case; two groups sharing both channels; a group without B.
SyncDataChoices ==
    { <<SyncGroup("g1", <<ChannelLanguageConfig("A", "en"), ChannelLanguageConfig("B", "es")>>)>>,
      <<SyncGroup("g1", <<ChannelLanguageConfig("A", "en"), ChannelLanguageConfig("B", "es"),
                          ChannelLanguageConfig("C", "EN")>>)>>,
      <<SyncGroup("g1", <<ChannelLanguageConfig("A", "en"), ChannelLanguageConfig("B", "es")>>),
        SyncGroup("g2", <<ChannelLanguageConfig("B", "fr"), ChannelLanguageConfig("A", "en")>>)>>,
      <<SyncGroup("g1", <<ChannelLanguageConfig("A", "en"), ChannelLanguageConfig("C", "es")>>)>> }

\* String.prototype.toLowerCase on the language codes of the configurations.
toLowerCase(lang) ==
    CASE lang = "EN" -> "en"
      [] lang = "ES" -> "es"
      [] lang = "FR" -> "fr"
      [] OTHER -> lang

hasChannel(channels, channelId) ==
    \E i \in 1..Len(channels) : channels[i].channelId = channelId

findChannelSyncGroups(data, channelId) ==
    SelectSeq(data, LAMBDA g : hasChannel(g.channels, channelId))

getChannelLanguage(data, channelId) ==
    LET groups == findChannelSyncGroups(data, channelId)
    IN  IF groups = <<>> THEN NoLanguage
        ELSE LET channels == Head(groups).channels
                 i == CHOOSE k \in 1..Len(channels) :
                         /\ channels[k].channelId = channelId
                         /\ \A j \in 1..(k - 1) : channels[j].channelId # channelId
             IN  channels[i].language

StorageGroups == {"g1"}
StorageChannels == {"A", "B"}
StorageLanguages == {"en", "es"}

\* Index of the group in the object of the server, 0 when it has no such key.
groupIndex(data, channelGroupId) ==
    IF \E g \in 1..Len(data) : data[g].groupId = channelGroupId
    THEN CHOOSE g \in 1..Len(data) : data[g].groupId = channelGroupId
    ELSE 0

\* Array.prototype.findIndex on the channelId, 1-based; 0 stands for -1.
findIndex(channels, channelId) ==
    IF hasChannel(channels, channelId)
    THEN CHOOSE k \in 1..Len(channels) :
            /\ channels[k].channelId = channelId
            /\ \A j \in 1..(k - 1) : channels[j].channelId # channelId
    ELSE 0

\* A plausible slip: the new configuration is always pushed.
addChannelToGroup_alwaysPush(data, channelGroupId, channelId, language) ==
    LET withGroup == IF groupIndex(data, channelGroupId) = 0
                     THEN Append(data, SyncGroup(channelGroupId, <<>>)) ELSE data
        g == groupIndex(withGroup, channelGroupId)
    IN  [withGroup EXCEPT ![g].channels = Append(@, ChannelLanguageConfig(channelId, language))]

\* addChannelToGroup on the loaded data, up to the save.
addChannelToGroup(data, channelGroupId, channelId, language) ==
    LET withGroup == IF groupIndex(data, channelGroupId) = 0
                     THEN Append(data, SyncGroup(channelGroupId, <<>>)) ELSE data
        g == groupIndex(withGroup, channelGroupId)
        existingChannelIndex == findIndex(withGroup[g].channels, channelId)
        newConfig == ChannelLanguageConfig(channelId, language)
    IN  IF existingChannelIndex >= 1
        THEN [withGroup EXCEPT ![g].channels[existingChannelIndex] = newConfig]
        ELSE [withGroup EXCEPT ![g].channels = Append(@, newConfig)]

\* removeChannelFromGroup on the loaded data: the data to save and wasRemoved.
removeChannelFromGroup(data, channelGroupId, channelId) ==
    LET g == groupIndex(data, channelGroupId)
    IN  IF g = 0 THEN [data |-> data, wasRemoved |-> FALSE]
        ELSE LET initialLength == Len(data[g].channels)
                 filtered == SelectSeq(data[g].channels,
                                       LAMBDA config : config.channelId # channelId)
             IN  IF filtered = <<>>
                 THEN [data |-> SubSeq(data, 1, g - 1) \o SubSeq(data, g + 1, Len(data)),
                       wasRemoved |-> initialLength > 0]
                 ELSE [data |-> [data EXCEPT ![g].channels = filtered],
                       wasRemoved |-> initialLength > Len(filtered)]

\* `const data = await this.loadSyncData()` of either operation: the call
\* works on the copy of the file it read.
StorageLoad(i, op, channelGroupId, channelId, language) ==
    /\ storageCalls[i].op = "none"
    /\ op = "remove" => language = NoLanguage
    /\ op = "add" => language # NoLanguage
    /\ storageCalls' = [storageCalls EXCEPT ![i] =
          [op |-> op, channelGroupId |-> channelGroupId, channelId |-> channelId,
           language |-> language, data |-> syncData]]
    /\ UNCHANGED <<syncData, messages, handlerVars, queueVars, emojiVars, avatarVars,
                   avatarCalls, webhookVars, serviceVars, validationVars, bridgeVars>>

\* addChannelToGroup from the load to the end: the copy is updated and saved;
\* a failed write leaves the file as it is (saveSyncData throws).
AddChannelSave(i, written) ==
    LET call == storageCalls[i]
        data == addChannelToGroup(call.data, call.channelGroupId, call.channelId, call.language)
        replaced == groupIndex(call.data, call.channelGroupId) # 0
                    /\ hasChannel(call.data[groupIndex(call.data, call.channelGroupId)].channels,
                                  call.channelId)
    IN  /\ call.op = "add"
        /\ syncData' = IF written THEN data ELSE syncData
        /\ storageCalls' = [storageCalls EXCEPT ![i] =
              [op |-> "none", last |-> IF ~written THEN "failed"
                                       ELSE IF replaced THEN "replaced" ELSE "pushed"]]
        /\ UNCHANGED <<messages, handlerVars, queueVars, emojiVars, avatarVars,
                       avatarCalls, webhookVars, serviceVars, validationVars, bridgeVars>>

\* removeChannelFromGroup from the load to the end: saved only if wasRemoved.
RemoveChannelSave(i, written) ==
    LET call == storageCalls[i]
        result == removeChannelFromGroup(call.data, call.channelGroupId, call.channelId)
    IN  /\ call.op = "remove"
        /\ ~result.wasRemoved => written
        /\ syncData' = IF result.wasRemoved /\ written THEN result.data ELSE syncData
        /\ storageCalls' = [storageCalls EXCEPT ![i] =
              [op |-> "none", last |-> IF ~written THEN "failed"
                                       ELSE IF result.wasRemoved THEN "removed" ELSE "absent"]]
        /\ UNCHANGED <<messages, handlerVars, queueVars, emojiVars, avatarVars,
                       avatarCalls, webhookVars, serviceVars, validationVars, bridgeVars>>

(***************************************************************************)
(* SyncMessageService: the fan-out of one message.                         *)
(***************************************************************************)
\* translateToSyncGroup: the members of a group other than the source.
targetChannels(channels, sourceChannelId) ==
    SelectSeq(channels, LAMBDA config : config.channelId # sourceChannelId)

\* The targets in the order the nested loops of processSyncedMessage and
\* translateToSyncGroup reach them.
RECURSIVE AllTargets(_, _)
AllTargets(syncGroups, sourceChannelId) ==
    IF syncGroups = <<>> THEN <<>>
    ELSE targetChannels(Head(syncGroups).channels, sourceChannelId)
            \o AllTargets(Tail(syncGroups), sourceChannelId)

\* A plausible slip: one reference per message instead of one per target.
totalTargetChannels_perMessage(syncGroups, sourceChannelId) ==
    IF AllTargets(syncGroups, sourceChannelId) = <<>> THEN 0 ELSE 1

RECURSIVE totalTargetChannels(_, _)
totalTargetChannels(syncGroups, sourceChannelId) ==
    IF syncGroups = <<>> THEN 0
    ELSE Len(targetChannels(Head(syncGroups).channels, sourceChannelId))
            + totalTargetChannels(Tail(syncGroups), sourceChannelId)

SyncGroupsOf(m) == findChannelSyncGroups(syncData, messages[m].channelId)
SourceLanguage(m) == getChannelLanguage(syncData, messages[m].channelId)
Targets(m) == AllTargets(SyncGroupsOf(m), messages[m].channelId)

\* A plausible slip: the languages are compared as they are stored.
SkipsTranslation_caseSensitive(sourceLanguage, targetLanguage) ==
    sourceLanguage = targetLanguage

\* translateAndQueue returns at once for a target with the source's language.
SkipsTranslation(sourceLanguage, targetLanguage) ==
    toLowerCase(sourceLanguage) = toLowerCase(targetLanguage)

\* Index of the next target after `from` that translateAndQueue translates (0: none).
NextWork(m, from) ==
    LET todo == {i \in (from + 1)..Len(Targets(m)) :
                    ~SkipsTranslation(SourceLanguage(m), Targets(m)[i].language)}
    IN  IF todo = {} THEN 0 ELSE CHOOSE i \in todo : \A j \in todo : i <= j

(***************************************************************************)
(* EmojiSyncService and the guilds.  A custom emoji token <:name:id> of a   *)
(* text and the guild emoji it names are records; the animated flag only   *)
(* chooses between <a:..> and <:..> and is left out.                       *)
(***************************************************************************)
Guilds == {"G1", "G2"}
\* Sync groups are stored per server: every channel of the pipeline is in it.
HomeGuild == "G1"

Emoji(id, name) == [id |-> id, name |-> name]
NoEmoji == Emoji(0, "")
\* The pieces of a text: a token <:name:id>, or the display name :name:.
Token(name, id) == [kind |-> "emoji", name |-> name, id |-> id]
DisplayName(name) == [kind |-> "text", name |-> name, id |-> 0]

\* EmojiCloneInfo (clonedEmoji is the guild emoji with id clonedId).
CloneInfo(originalId, originalName, clonedId, guildId) ==
    [originalId |-> originalId, originalName |-> originalName,
     clonedId |-> clonedId, guildId |-> guildId]

\* The id Discord gives the k-th emoji the bot creates, and its temporary name
\* (TEMP_EMOJI_PREFIX, the source's name, digits of the clock).
FirstCloneId == 100
ClonedId(k) == FirstCloneId + k
tempName(name) == <<"temp_", name>>

\* No extractAndCloneEmojis call is under way.
NoBridge == [pc |-> "idle"]

Running == [state |-> "running", cleanupAll |-> "none"]

\* The bot has every permission in both guilds, which have no emojis yet.
PlainGuild == [permission |-> "granted", premiumTier |-> 0, others |-> 0]

\* EmojiSyncService.isTemporaryEmoji
isTemporaryEmoji(tracked, emojiId, guildId) ==
    \E info \in tracked : info.guildId = guildId /\ info.clonedId = emojiId

(***************************************************************************)
(* MessageQueue and MessageQueueManager, as operators on a record of the   *)
(* pipeline's state: one step runs several of them in a row.               *)
(***************************************************************************)
\* The text handed to addToQueue: who produced the body (the LLM, Google, or
\* message.content itself) and what translateAndQueue put around it.
FallbackMarker == " (U+1F504)"
ErrorPrefix == "[Translation Error] "
NoText == [prefix |-> "", body |-> "", suffix |-> ""]

\* A plausible slip: every translated text gets the marker.
markedText_always(translatedText, translationMethod) ==
    [prefix |-> "", body |-> translatedText,
     suffix |-> IF translationMethod # "unknown" THEN FallbackMarker ELSE ""]

\* translateAndQueue, the template literal of the last addToQueue call.
markedText(translatedText, translationMethod) ==
    [prefix |-> "", body |-> translatedText,
     suffix |-> IF translationMethod = "Google Translate" THEN FallbackMarker ELSE ""]

\* translateAndQueue, the text queued when both translators failed.
errorText(content) == [prefix |-> ErrorPrefix, body |-> content, suffix |-> ""]

NoItem == [originalMessage |-> NoMsg, targetChannelId |-> "", targetLanguage |-> "",
           translatedText |-> NoText, timestamp |-> 0, profilePicturePath |-> NoPath]
\* afterCatch: the send before this one in the same drain threw (observer).
\* finalContent: the text handed to the webhook ("translatedContent" as it was
\* queued, "processedContent" as extractAndCloneEmojis returned it);
\* webhookSuccess: what sendWebhookMessage returned, "true" or "false" ("none":
\* it has not returned).
NoSend == [item |-> NoItem, phase |-> "idle", clonedEmojis |-> {}, afterCatch |-> FALSE,
           finalContent |-> "", webhookSuccess |-> "none"]

PipelineState ==
    [pc |-> pc, nextTarget |-> nextTarget, queue |-> queue, processing |-> processing,
     sending |-> sending, sentLog |-> sentLog, enqueued |-> enqueued,
     deliveryLog |-> deliveryLog,
     emojiCleanups |-> emojiCleanups, avatar |-> AvatarState]

SetPipelineState(s) ==
    /\ pc' = s.pc
    /\ nextTarget' = s.nextTarget
    /\ queue' = s.queue
    /\ processing' = s.processing
    /\ sending' = s.sending
    /\ sentLog' = s.sentLog
    /\ enqueued' = s.enqueued
    /\ deliveryLog' = s.deliveryLog
    /\ emojiCleanups' = s.emojiCleanups
    /\ SetAvatarState(s.avatar)

\* The loops of translateToSyncGroup go on after translateAndQueue returned:
\* up to the next await (of tryLLMTranslation), or to the end of the handler.
continueHandler(s, m) ==
    LET i == NextWork(m, s.nextTarget[m])
    IN  IF i = 0 THEN [s EXCEPT !.pc[m] = "done"]
        ELSE [s EXCEPT !.pc[m] = "llm", !.nextTarget[m] = i]

\* Array.prototype.sort with (a, b) => a.timestamp - b.timestamp: stable.
RECURSIVE InsertByTimestamp(_, _)
InsertByTimestamp(q, x) ==
    IF q = <<>> THEN <<x>>
    ELSE IF Head(q).timestamp <= x.timestamp
         THEN <<Head(q)>> \o InsertByTimestamp(Tail(q), x)
         ELSE <<x>> \o q

RECURSIVE sortByTimestamp(_)
sortByTimestamp(q) ==
    IF q = <<>> THEN <<>>
    ELSE InsertByTimestamp(sortByTimestamp(SubSeq(q, 1, Len(q) - 1)), q[Len(q)])

\* A plausible slip: `processing` is not reset when the loop ends.
whileLoop_staysBusy(s, m, c, caught) ==
    IF Len(s.queue[c]) > 0
    THEN LET message == Head(s.queue[c])
         IN  [s EXCEPT !.queue[c] = Tail(@),
                       !.sending[m] = [item |-> message, phase |-> "fetch",
                                       clonedEmojis |-> {}, afterCatch |-> caught,
                                       finalContent |-> "", webhookSuccess |-> "none"],
                       !.sentLog[c] = Append(@, message.originalMessage),
                       !.pc[m] = "drain"]
    ELSE continueHandler([s EXCEPT !.sending[m] = NoSend], m)

\* processQueue, the test of the while loop and what follows it: the next item
\* is shifted and sendTranslatedMessage runs up to its first await, or the loop
\* ends and the handler that awaited this processQueue goes on.
whileLoop(s, m, c, caught) ==
    IF Len(s.queue[c]) > 0
    THEN LET message == Head(s.queue[c])
         IN  [s EXCEPT !.queue[c] = Tail(@),
                       !.sending[m] = [item |-> message, phase |-> "fetch",
                                       clonedEmojis |-> {}, afterCatch |-> caught,
                                       finalContent |-> "", webhookSuccess |-> "none"],
                       !.sentLog[c] = Append(@, message.originalMessage),
                       !.pc[m] = "drain"]
    ELSE continueHandler([s EXCEPT !.processing[c] = FALSE, !.sending[m] = NoSend], m)

\* A plausible slip: processQueue does not raise `processing`.
processQueue_flagNotSet(s, m, c) == whileLoop(s, m, c, FALSE)

\* processQueue: `processing` is raised, then the while loop runs.
processQueue(s, m, c) == whileLoop([s EXCEPT !.processing[c] = TRUE], m, c, FALSE)

\* A plausible slip: the drain is started without looking at `processing`.
addMessage_noGuard(s, m, queuedMessage) ==
    LET c == queuedMessage.targetChannelId
        s1 == [s EXCEPT !.queue[c] = sortByTimestamp(Append(@, queuedMessage))]
    IN  processQueue(s1, m, c)

\* MessageQueue.addMessage called (and awaited) by handler m.
addMessage(s, m, queuedMessage) ==
    LET c == queuedMessage.targetChannelId
        s1 == [s EXCEPT !.queue[c] = sortByTimestamp(Append(@, queuedMessage))]
    IN  IF ~s.processing[c] THEN processQueue(s1, m, c) ELSE continueHandler(s1, m)

\* MessageQueueManager.addToQueue called by handler m for its current target.
addToQueue(s, m, translatedText) ==
    LET target == Targets(m)[s.nextTarget[m]]
        queuedMessage == [originalMessage |-> m,
                          targetChannelId |-> target.channelId,
                          targetLanguage |-> target.language,
                          translatedText |-> translatedText,
                          timestamp |-> messages[m].createdTimestamp,
                          profilePicturePath |-> userProfile[m]]
        calls == {q \in Requests : translation[q].caller = m
                                     /\ translation[q].target = s.nextTarget[m]}
        entry == [message |-> m, target |-> s.nextTarget[m],
                  translatedText |-> translatedText,
                  primary |-> {translation[q].state : q \in calls},
                  attempts |-> {translation[q].attempt : q \in calls}]
    IN  addMessage([s EXCEPT !.enqueued[m][target.channelId] = @ + 1,
                             !.deliveryLog = @ \cup {entry}], m, queuedMessage)

\* sendTranslatedMessage, the code after the send on the paths that release:
\* scheduleEmojiCleanup for the clones of this send, then removeReference.
releaseResources(s, m) ==
    LET send == s.sending[m]
    IN  [s EXCEPT !.emojiCleanups = IF send.clonedEmojis # {}
                                    THEN @ \cup {send.clonedEmojis} ELSE @,
                  !.avatar = removeReference(@, send.item.profilePicturePath)]

\* A plausible slip: the try/catch is around the loop, a throw ends the drain.
finishSend_catchOutside(s, m, released, threw) ==
    LET c == s.sending[m].item.targetChannelId
        s1 == IF released THEN releaseResources(s, m) ELSE s
    IN  IF threw
        THEN continueHandler([s1 EXCEPT !.processing[c] = FALSE, !.sending[m] = NoSend], m)
        ELSE whileLoop(s1, m, c, FALSE)

\* sendTranslatedMessage has returned or thrown to processQueue (which logs a
\* throw and goes on with the loop).
finishSend(s, m, released, threw) ==
    whileLoop(IF released THEN releaseResources(s, m) ELSE s,
              m, s.sending[m].item.targetChannelId, threw)

\* The release of a send of handler m finds a timer handle when it needs one.
CanRelease(m) ==
    RemoveSchedules(AvatarState, sending[m].item.profilePicturePath)
        => CanSetTimeout(timers)

RECURSIVE addReferences(_, _, _)
addReferences(s, filePath, n) ==
    IF n = 0 THEN s ELSE addReferences(addReference(s, filePath), filePath, n - 1)

(***************************************************************************)
(* The steps of the pipeline.                                              *)
(***************************************************************************)
MessageKinds == {"user", "bot", "empty", "dm"}

\* A plausible slip: the guard on message.guild is missing.
HandleMessage_noGuildGuard(ch, kind, emoji) ==
    LET m == Len(messages) + 1
        accepted == /\ kind \in {"user", "dm"}
                    /\ getChannelLanguage(syncData, ch) # NoLanguage
                    /\ Len(findChannelSyncGroups(syncData, ch)) # 0
    IN  /\ m <= MaxMsgs
        /\ messages' = Append(messages, [channelId |-> ch, kind |-> kind, emoji |-> emoji,
                                         createdTimestamp |-> m])
        /\ pc' = [pc EXCEPT ![m] = IF accepted THEN "profile" ELSE "done"]
        /\ UNCHANGED <<llmVars, syncData, nextTarget, userProfile, queueVars, emojiVars, avatarVars>>

\* messageCreate: handleMessage up to its first await that matters. The
\* guards of handleMessage and the lookups of processSyncedMessage read the
\* message and the stored configuration only.
HandleMessage(ch, kind, emoji) ==
    LET m == Len(messages) + 1
        accepted == /\ kind = "user"
                    /\ getChannelLanguage(syncData, ch) # NoLanguage
                    /\ Len(findChannelSyncGroups(syncData, ch)) # 0
    IN  /\ m <= MaxMsgs
        /\ messages' = Append(messages, [channelId |-> ch, kind |-> kind, emoji |-> emoji,
                                         createdTimestamp |-> m])
        /\ pc' = [pc EXCEPT ![m] = IF accepted THEN "profile" ELSE "done"]
        /\ UNCHANGED <<llmVars, syncData, nextTarget, userProfile, queueVars, emojiVars, avatarVars>>

\* UserUtils.extractUserLikeByMessage has returned (with or without a
\* downloaded avatar file): the references are added and the loops start.
ExtractProfile(m, downloaded) ==
    LET path == IF downloaded THEN m ELSE NoPath
        total == totalTargetChannels(SyncGroupsOf(m), messages[m].channelId)
        s1 == [PipelineState EXCEPT
                 !.avatar = IF path # NoPath /\ total > 0
                            THEN addReferences(@, path, total) ELSE @]
    IN  /\ pc[m] = "profile"
        /\ userProfile' = [userProfile EXCEPT ![m] = path]
        /\ fileExists' = [fileExists EXCEPT ![m] = downloaded]
        /\ SetPipelineState(continueHandler(s1, m))
        /\ UNCHANGED <<llmVars, configVars, cloneVars, deletions>>

\* tryLLMTranslation has returned (ok) or thrown.
LLMResult(m, ok) ==
    /\ pc[m] = "llm"
    /\ IF ok
       THEN /\ SetPipelineState(addToQueue(PipelineState, m, markedText("llmText", "LLM (Mistral)")))
            /\ UNCHANGED <<llmVars, configVars, userProfile, cloneVars,
                           fileExists, deletions>>
       ELSE /\ pc' = [pc EXCEPT ![m] = "google"]
            /\ UNCHANGED <<llmVars, configVars, nextTarget, userProfile, queueVars, emojiVars,
                           avatarVars>>

\* A plausible slip: nothing is queued when both translators failed.
GoogleResult_dropOnFailure(m, ok) ==
    /\ pc[m] = "google"
    /\ SetPipelineState(IF ok
            THEN addToQueue(PipelineState, m, markedText("googleText", "Google Translate"))
            ELSE continueHandler(PipelineState, m))
    /\ UNCHANGED <<llmVars, configVars, userProfile, cloneVars,
                   fileExists, deletions>>

\* TranslationService.translate has returned (ok: the text gets the fallback
\* marker) or thrown (the original text is queued with the error prefix).
GoogleResult(m, ok) ==
    /\ pc[m] = "google"
    /\ SetPipelineState(addToQueue(PipelineState, m,
            IF ok THEN markedText("googleText", "Google Translate")
            ELSE errorText("content")))
    /\ UNCHANGED <<llmVars, configVars, userProfile, cloneVars,
                   fileExists, deletions>>

BridgeResults == {"returns", "throws"}

\* sendTranslatedMessage: client.channels.fetch has thrown, or it has returned
\* and either extractAndCloneEmojis is called and awaited (the text has custom
\* emojis) or sendWebhookMessage is, with the translated text.
SendFetch(m, throws) ==
    /\ pc[m] = "drain" /\ sending[m].phase = "fetch"
    /\ IF throws
       THEN /\ CanRelease(m)
            /\ SetPipelineState(finishSend(PipelineState, m, TRUE, TRUE))
            /\ UNCHANGED <<llmVars, configVars, userProfile, cloneVars,
                           fileExists, deletions>>
       ELSE /\ sending' = [sending EXCEPT ![m] =
                   IF messages[sending[m].item.originalMessage].emoji
                   THEN [@ EXCEPT !.phase = "emoji"]
                   ELSE [@ EXCEPT !.phase = "webhook", !.finalContent = "translatedContent"]]
            /\ UNCHANGED <<llmVars, configVars, handlerVars, queue, processing, sentLog, enqueued, deliveryLog,
                           emojiVars, avatarVars>>

\* Mutant: extractAndCloneEmojis is awaited outside a try/catch, its throw is
\* the throw of the send.
SendEmojis_uncaught(m, bridgeResult, cloned) ==
    /\ pc[m] = "drain" /\ sending[m].phase = "emoji"
    /\ cloned > 0 => bridgeResult = "returns" /\ clonesMade + cloned <= MaxClones
    /\ IF bridgeResult = "throws"
       THEN /\ CanRelease(m)
            /\ SetPipelineState(finishSend(PipelineState, m, TRUE, TRUE))
            /\ UNCHANGED <<llmVars, configVars, userProfile, cloneVars,
                           fileExists, deletions>>
       ELSE /\ sending' = [sending EXCEPT ![m].phase = "webhook",
                                          ![m].finalContent = "processedContent"]
            /\ UNCHANGED <<llmVars, configVars, handlerVars, queue, processing, sentLog, enqueued, deliveryLog,
                           emojiVars, avatarVars>>

\* sendTranslatedMessage: extractAndCloneEmojis has returned, having created
\* and tracked the clones `cloned`, or has thrown (which it can before its
\* loop only: in the loop every token has its own try/catch) and the catch
\* has put the translated text back.
SendEmojis(m, bridgeResult, cloned) ==
    /\ pc[m] = "drain" /\ sending[m].phase = "emoji"
    /\ cloned > 0 => bridgeResult = "returns" /\ clonesMade + cloned <= MaxClones
    /\ LET made == (clonesMade + 1)..(clonesMade + cloned)
           ids == {CloneInfo(0, "", ClonedId(k), HomeGuild) : k \in made}
       IN  /\ sending' = [sending EXCEPT
                  ![m].phase = "webhook",
                  ![m].clonedEmojis = ids,
                  ![m].finalContent = IF bridgeResult = "returns"
                                      THEN "processedContent" ELSE "translatedContent"]
           /\ temporaryEmojis' = temporaryEmojis \cup ids
           /\ clonesMade' = clonesMade + cloned
           /\ guildEmojis' = [guildEmojis EXCEPT ![HomeGuild] =
                  @ \cup {Emoji(ClonedId(k), tempName("")) : k \in made}]
    /\ UNCHANGED <<llmVars, configVars, handlerVars, queue, processing, sentLog, enqueued, deliveryLog,
                   emojiCleanups, cleanupLog, avatarVars>>

\* Mutant: the plain post is made whatever sendWebhookMessage returned.
SendWebhook_alwaysFallback(m, webhookSuccess) ==
    /\ pc[m] = "drain" /\ sending[m].phase = "webhook"
    /\ sending' = [sending EXCEPT ![m].phase = "fallback",
                                  ![m].webhookSuccess = IF webhookSuccess THEN "true" ELSE "false"]
    /\ UNCHANGED <<llmVars, configVars, handlerVars, queue, processing, sentLog, enqueued, deliveryLog,
                   emojiVars, avatarVars>>

\* WebhookService.sendWebhookMessage has returned true (webhook.send has
\* posted the text) or false (no webhook, or webhook.send threw).
SendWebhook(m, webhookSuccess) ==
    /\ pc[m] = "drain" /\ sending[m].phase = "webhook"
    /\ IF webhookSuccess
       THEN /\ CanRelease(m)
            /\ SetPipelineState(finishSend(PipelineState, m, TRUE, FALSE))
            /\ UNCHANGED <<llmVars, configVars, userProfile, cloneVars,
                           fileExists, deletions>>
       ELSE /\ sending' = [sending EXCEPT ![m].phase = "fallback",
                                          ![m].webhookSuccess = "false"]
            /\ UNCHANGED <<llmVars, configVars, handlerVars, queue, processing, sentLog, enqueued, deliveryLog,
                           emojiVars, avatarVars>>

FallbackOutcomes == {"notText", "sent", "throws"}

\* The plain post after a failed webhook: the target channel is missing or not
\* text based (`return` inside the try), or targetChannel.send returned or threw.
SendFallback(m, outcome) ==
    /\ pc[m] = "drain" /\ sending[m].phase = "fallback"
    /\ outcome # "notText" => CanRelease(m)
    /\ SetPipelineState(finishSend(PipelineState, m, outcome # "notText", outcome = "throws"))
    /\ UNCHANGED <<llmVars, configVars, userProfile, cloneVars,
                   fileExists, deletions>>

\* cleanupEmoji for each clone of `infos`, called by `by` (which was called
\* with the guild `guildId`, "" for none): the clone is taken out of the
\* tracking table, then deleted from its guild unless it is not deletable or
\* the deletion fails (`failed`); the error is caught and logged.
cleanupEmojis(s, infos, failed, by, guildId) ==
    [s EXCEPT !.temporaryEmojis = @ \ infos,
              !.guildEmojis = [g \in Guilds |->
                  {e \in @[g] : \A info \in infos \ failed :
                                    ~(info.guildId = g /\ info.clonedId = e.id)}],
              !.cleanupLog = @ \cup {[clone |-> info, by |-> by, guildId |-> guildId,
                                       deleted |-> info \notin failed] : info \in infos}]

EmojiState ==
    [temporaryEmojis |-> temporaryEmojis, guildEmojis |-> guildEmojis,
     cleanupLog |-> cleanupLog, clonesMade |-> clonesMade, bridge |-> bridge,
     tokenLog |-> tokenLog]

SetEmojiState(s) ==
    /\ temporaryEmojis' = s.temporaryEmojis
    /\ guildEmojis' = s.guildEmojis
    /\ cleanupLog' = s.cleanupLog
    /\ clonesMade' = s.clonesMade
    /\ bridge' = s.bridge
    /\ tokenLog' = s.tokenLog

\* cloneEmojiToGuild: the limit on the emojis of a guild.
maxEmojis(premiumTier) ==
    IF premiumTier >= 2 THEN 150 ELSE IF premiumTier >= 1 THEN 100 ELSE 50

\* targetGuild.emojis.cache.size
currentEmojis(s, g) == Cardinality(s.guildEmojis[g]) + guildInfo[g].others

\* Mutant: the emoji of the target guild is looked up by its id only.
existingEmoji_byIdOnly(emojis, name, id) ==
    IF \E e \in emojis : e.id = id THEN CHOOSE e \in emojis : e.id = id ELSE NoEmoji

\* cache.get(id) || cache.find((e) => e.name === name); NoEmoji: undefined.
existingEmoji(emojis, name, id) ==
    IF \E e \in emojis : e.id = id THEN CHOOSE e \in emojis : e.id = id
    ELSE IF \E e \in emojis : e.name = name THEN CHOOSE e \in emojis : e.name = name
    ELSE NoEmoji

\* String.prototype.replace with a string pattern: the first occurrence only.
RECURSIVE replaceFirst(_, _, _)
replaceFirst(text, fullMatch, replacement) ==
    IF text = <<>> THEN <<>>
    ELSE IF Head(text) = fullMatch THEN <<replacement>> \o Tail(text)
    ELSE <<Head(text)>> \o replaceFirst(Tail(text), fullMatch, replacement)

NoClone == CloneInfo(0, "", 0, "")

\* What the loop saw and did for the token it is at (observer).
TokenEntry(s, existing, located, outcome, clone, replacement) ==
    [match |-> s.bridge.match, token |-> s.bridge.content[s.bridge.match],
     existing |-> existing, located |-> located,
     permission |-> guildInfo[s.bridge.targetGuild].permission,
     currentEmojis |-> currentEmojis(s, s.bridge.targetGuild),
     maxEmojis |-> maxEmojis(guildInfo[s.bridge.targetGuild].premiumTier),
     outcome |-> outcome, clone |-> clone, replacement |-> replacement]

\* The loop is through with a token: the text is rewritten, the next match.
tokenDone(s, entry) ==
    [s EXCEPT !.bridge.processedContent =
                  replaceFirst(@, s.bridge.content[s.bridge.match], entry.replacement),
              !.bridge.match = @ + 1,
              !.bridge.pc = "token",
              !.bridge.sourceEmoji = NoEmoji,
              !.tokenLog = Append(@, entry)]

\* The token becomes its display name :name:.
useDisplayName(s, located, outcome) ==
    tokenDone(s, TokenEntry(s, NoEmoji, located, outcome, NoClone,
                            DisplayName(s.bridge.content[s.bridge.match].name)))

RECURSIVE forLoop(_)
RECURSIVE cloneEmojiToGuild(_, _)

\* Mutant: cloneEmojiToGuild without the check of the bot's permissions.
cloneEmojiToGuild_noPermissionCheck(s, sourceEmoji) ==
    LET g == s.bridge.targetGuild
    IN  IF currentEmojis(s, g) >= maxEmojis(guildInfo[g].premiumTier)
        THEN forLoop(useDisplayName(s, TRUE, "atLimit"))
        ELSE [s EXCEPT !.bridge.pc = "create", !.bridge.sourceEmoji = sourceEmoji]

\* extractAndCloneEmojis: the loop over the matches from the current one, up
\* to the next call that is awaited or to the return.
forLoop(s) ==
    LET b == s.bridge
    IN  IF b.match > Len(b.content) THEN [s EXCEPT !.bridge.pc = "done"]
        ELSE LET t == b.content[b.match]
                 existing == existingEmoji(s.guildEmojis[b.targetGuild], t.name, t.id)
                 inSource == {e \in s.guildEmojis[b.sourceGuild] : e.id = t.id}
             IN  IF existing # NoEmoji
                 THEN forLoop(tokenDone(s, TokenEntry(s, existing, FALSE, "existing", NoClone,
                                                      Token(existing.name, existing.id))))
                 ELSE IF inSource # {}
                 THEN cloneEmojiToGuild(s, CHOOSE e \in inSource : TRUE)
                 ELSE [s EXCEPT !.bridge.pc = "fetch"]

\* cloneEmojiToGuild up to targetGuild.emojis.create: null without the
\* permission (or with the bot's member not cached) and at the emoji limit.
cloneEmojiToGuild(s, sourceEmoji) ==
    LET g == s.bridge.targetGuild
    IN  IF guildInfo[g].permission # "granted"
        THEN forLoop(useDisplayName(s, TRUE, "noPermission"))
        ELSE IF currentEmojis(s, g) >= maxEmojis(guildInfo[g].premiumTier)
        THEN forLoop(useDisplayName(s, TRUE, "atLimit"))
        ELSE [s EXCEPT !.bridge.pc = "create", !.bridge.sourceEmoji = sourceEmoji]

\* The clone was created: it is recorded, tracked and put into the text.
cloneCreated(s) ==
    LET b == s.bridge
        t == b.content[b.match]
        clonedEmoji == Emoji(ClonedId(s.clonesMade + 1), tempName(b.sourceEmoji.name))
        cloneInfo == CloneInfo(t.id, t.name, clonedEmoji.id, b.targetGuild)
        s1 == [s EXCEPT !.clonesMade = @ + 1,
                        !.guildEmojis[b.targetGuild] = @ \cup {clonedEmoji},
                        !.bridge.clonedEmojis = Append(@, cloneInfo),
                        !.temporaryEmojis = @ \cup {cloneInfo}]
    IN  tokenDone(s1, TokenEntry(s, NoEmoji, TRUE, "cloned", cloneInfo,
                                 Token(clonedEmoji.name, clonedEmoji.id)))

IsRunning == process.state = "running"

\* EmojiSyncService.extractAndCloneEmojis(content, sourceGuild, targetGuild)
ExtractAndCloneEmojis(content, sourceGuild, targetGuild) ==
    LET s == [EmojiState EXCEPT
                !.bridge = [pc |-> "token", content |-> content, match |-> 1,
                            processedContent |-> content, clonedEmojis |-> <<>>,
                            sourceGuild |-> sourceGuild, targetGuild |-> targetGuild,
                            sourceEmoji |-> NoEmoji],
                !.tokenLog = <<>>]
    IN  /\ IsRunning /\ bridge.pc = "idle"
        /\ SetEmojiState(forLoop(s))
        /\ UNCHANGED <<emojiCleanups, guildInfo, process, serviceVars, validationVars, asideVars,
                       configVars, handlerVars, queueVars, avatarVars>>

FetchOutcomes == {"found", "null", "throws"}

\* sourceGuild.client.application.emojis.fetch(id) has settled.
FetchSettles(outcome) ==
    LET t == bridge.content[bridge.match]
    IN  /\ IsRunning /\ bridge.pc = "fetch"
        /\ SetEmojiState(IF outcome = "found"
                         THEN cloneEmojiToGuild(EmojiState, Emoji(t.id, t.name))
                         ELSE forLoop(useDisplayName(EmojiState, FALSE, "notLocated")))
        /\ UNCHANGED <<emojiCleanups, guildInfo, process, serviceVars, validationVars, asideVars,
                       configVars, handlerVars, queueVars, avatarVars>>

\* targetGuild.emojis.create has settled.
CreateSettles(ok) ==
    /\ IsRunning /\ bridge.pc = "create"
    /\ ok => clonesMade < MaxClones
    /\ SetEmojiState(forLoop(IF ok THEN cloneCreated(EmojiState)
                             ELSE useDisplayName(EmojiState, TRUE, "createFailed")))
    /\ UNCHANGED <<emojiCleanups, guildInfo, process, serviceVars, validationVars, asideVars,
                   configVars, handlerVars, queueVars, avatarVars>>

\* extractAndCloneEmojis has returned and the send that used its result is
\* over: scheduleEmojiCleanup(clonedEmojis).
ScheduleEmojiCleanup ==
    LET clonedEmojis == {bridge.clonedEmojis[i] : i \in 1..Len(bridge.clonedEmojis)}
    IN  /\ IsRunning /\ bridge.pc = "done"
        /\ bridge' = NoBridge
        /\ tokenLog' = <<>>
        /\ emojiCleanups' = IF clonedEmojis = {} THEN emojiCleanups
                            ELSE emojiCleanups \cup {clonedEmojis}
        /\ UNCHANGED <<cloneVars, guildInfo, process, serviceVars, validationVars, asideVars,
                       configVars, handlerVars, queueVars, avatarVars>>

\* Mutant: emergencyCleanup without the filter on the guild.
EmergencyCleanup_everyGuild(guildId, failed) ==
    /\ IsRunning
    /\ failed \subseteq temporaryEmojis
    /\ SetEmojiState(cleanupEmojis(EmojiState, temporaryEmojis, failed, "emergency", guildId))
    /\ UNCHANGED <<emojiCleanups, guildInfo, process, serviceVars, validationVars, asideVars,
                   configVars, handlerVars, queueVars, avatarVars>>

\* EmojiSyncService.emergencyCleanup(guildId); "" stands for no argument.
EmergencyCleanup(guildId, failed) ==
    LET emojisToCleanup == IF guildId # "" THEN {e \in temporaryEmojis : e.guildId = guildId}
                           ELSE temporaryEmojis
    IN  /\ IsRunning
        /\ failed \subseteq emojisToCleanup
        /\ SetEmojiState(cleanupEmojis(EmojiState, emojisToCleanup, failed, "emergency", guildId))
        /\ UNCHANGED <<emojiCleanups, guildInfo, process, serviceVars, validationVars, asideVars,
                       configVars, handlerVars, queueVars, avatarVars>>

\* What follows the await of cleanupAllTemporaryEmojis in the handler of
\* `event`: process.exit(0) for a signal, nothing for 'disconnect'.
afterCleanupAll(event) ==
    [state |-> IF event = "disconnect" THEN "running" ELSE "exited", cleanupAll |-> "none"]

\* cleanupAllTemporaryEmojis, called by the handler of `event` ("disconnect",
\* "SIGINT", "SIGTERM"): cleanupEmoji for every tracked clone, and the await
\* of Promise.allSettled, which other events run during unless no clone was
\* tracked and nothing is waited for.
CleanupAllTemporaryEmojis(event, failed) ==
    /\ IsRunning /\ process.cleanupAll = "none"
    /\ failed \subseteq temporaryEmojis
    /\ SetEmojiState(cleanupEmojis(EmojiState, temporaryEmojis, failed, "all", ""))
    /\ process' = IF temporaryEmojis = {} THEN afterCleanupAll(event)
                  ELSE [process EXCEPT !.cleanupAll = event]
    /\ UNCHANGED <<emojiCleanups, guildInfo, serviceVars, validationVars, asideVars,
                   configVars, handlerVars, queueVars, avatarVars>>

\* Promise.allSettled has settled: temporaryEmojis.clear(), and the handler
\* of a signal calls process.exit(0).
CleanupAllSettled ==
    /\ IsRunning /\ process.cleanupAll # "none"
    /\ temporaryEmojis' = {}
    /\ process' = afterCleanupAll(process.cleanupAll)
    /\ UNCHANGED <<clonesMade, guildEmojis, cleanupLog, emojiCleanups, bridge, tokenLog, guildInfo,
                   serviceVars, validationVars, asideVars, configVars, handlerVars, queueVars, avatarVars>>

\* Mutant: the clones whose deletion failed are scheduled again.
EmojiCleanup_retry(batch, failed) ==
    LET s == cleanupEmojis(EmojiState, batch, failed, "scheduled", "")
    IN  /\ batch \in emojiCleanups
        /\ failed \subseteq batch
        /\ temporaryEmojis' = s.temporaryEmojis
        /\ guildEmojis' = s.guildEmojis
        /\ cleanupLog' = s.cleanupLog
        /\ emojiCleanups' = (emojiCleanups \ {batch}) \cup (IF failed = {} THEN {} ELSE {failed})
        /\ UNCHANGED <<llmVars, configVars, handlerVars, queueVars, clonesMade, avatarVars>>

\* The setTimeout callback of scheduleEmojiCleanup: cleanupEmoji for each clone.
EmojiCleanup(batch, failed) ==
    LET s == cleanupEmojis(EmojiState, batch, failed, "scheduled", "")
    IN  /\ batch \in emojiCleanups
        /\ failed \subseteq batch
        /\ temporaryEmojis' = s.temporaryEmojis
        /\ guildEmojis' = s.guildEmojis
        /\ cleanupLog' = s.cleanupLog
        /\ emojiCleanups' = emojiCleanups \ {batch}
        /\ UNCHANGED <<llmVars, configVars, handlerVars, queueVars, clonesMade, avatarVars>>

InitEmojiService ==
    /\ temporaryEmojis = {}
    /\ emojiCleanups = {}
    /\ clonesMade = 0
    /\ cleanupLog = {}
    /\ bridge = NoBridge
    /\ tokenLog = <<>>

InitEmojis ==
    /\ InitEmojiService
    /\ guildEmojis = [g \in Guilds |-> {}]
    /\ guildInfo = [g \in Guilds |-> PlainGuild]
    /\ process = Running

InitHandlers ==
    /\ messages = <<>>
    /\ pc = [m \in Msgs |-> "none"]
    /\ nextTarget = [m \in Msgs |-> 0]
    /\ userProfile = [m \in Msgs |-> NoPath]
    /\ queue = [c \in Channels |-> <<>>]
    /\ processing = [c \in Channels |-> FALSE]
    /\ sending = [m \in Msgs |-> NoSend]
    /\ InitEmojis
    /\ sentLog = [c \in Channels |-> <<>>]
    /\ enqueued = [m \in Msgs |-> [c \in Channels |-> 0]]
    /\ deliveryLog = {}

InitPipeline == InitLLM /\ InitHandlers

\* Spec: the fan-out and the queues under every stored configuration. The
\* messages have no custom emojis and the primary translator answers every
\* request (when it answers is open); SpecSend has the emojis, SpecTranslate
\* the translators and their failover.
Init ==
    /\ syncData \in SyncDataChoices
    /\ InitPipeline
    /\ InitAvatarTables
    /\ fileExists = [p \in Paths |-> FALSE]

Next ==
    \/ \E ch \in {"A", "B"}, kind \in {"user", "bot"} : HandleMessage(ch, kind, FALSE)
    \/ \E m \in Msgs, downloaded \in BOOLEAN : ExtractProfile(m, downloaded)
    \/ \E m \in Msgs : LLMResult(m, TRUE)
    \/ \E m \in Msgs, throws \in BOOLEAN : SendFetch(m, throws)
    \/ \E m \in Msgs, ok \in BOOLEAN : SendWebhook(m, ok)
    \/ \E m \in Msgs, outcome \in FallbackOutcomes : SendFallback(m, outcome)
    \/ \E t \in timers : TimerFire(t)
    \/ \E t \in timers : TimerDone(t)

Spec == Init /\ [][Next]_vars

\* SpecTargets: the same configurations under messages of users without an
\* avatar file, every send succeeding at the webhook.
NextTargets ==
    \/ \E ch \in {"A", "B"} : HandleMessage(ch, "user", FALSE)
    \/ \E m \in Msgs : ExtractProfile(m, FALSE)
    \/ \E m \in Msgs : LLMResult(m, TRUE)
    \/ \E m \in Msgs : SendFetch(m, FALSE)
    \/ \E m \in Msgs : SendWebhook(m, TRUE)

SpecTargets == Init /\ [][NextTargets]_vars

\* SpecSend: one sync group of two channels (C is not configured), messages of
\* every kind, with or without custom emojis; a send may clone an emoji into
\* the target guild.
InitSend ==
    /\ syncData = <<SyncGroup("g1", <<ChannelLanguageConfig("A", "en"),
                                      ChannelLanguageConfig("B", "es")>>)>>
    /\ InitPipeline
    /\ InitAvatarTables
    /\ fileExists = [p \in Paths |-> FALSE]

NextSend ==
    \/ \E ch \in {"A", "C"}, kind \in MessageKinds, emoji \in BOOLEAN :
          HandleMessage(ch, kind, emoji)
    \/ \E m \in Msgs, downloaded \in BOOLEAN : ExtractProfile(m, downloaded)
    \/ \E m \in Msgs : LLMResult(m, TRUE)
    \/ \E m \in Msgs, throws \in BOOLEAN : SendFetch(m, throws)
    \/ \E m \in Msgs, bridgeResult \in BridgeResults, cloned \in 0..1 :
          SendEmojis(m, bridgeResult, cloned)
    \/ \E m \in Msgs, ok \in BOOLEAN : SendWebhook(m, ok)
    \/ \E m \in Msgs, outcome \in FallbackOutcomes : SendFallback(m, outcome)
    \/ \E batch \in emojiCleanups : \E failed \in SUBSET batch : EmojiCleanup(batch, failed)
    \/ \E t \in timers : TimerFire(t)
    \/ \E t \in timers : TimerDone(t)

SpecSend == InitSend /\ [][NextSend]_vars

\* SpecTimers: the pipeline of SpecSend for the messages of users in channel
\* A, which have no avatar file.  The timer of scheduleEmojiCleanup fires: the
\* process does not end, and no handle is kept that clearTimeout could be
\* called with.
NextTimers ==
    \/ \E emoji \in BOOLEAN : HandleMessage("A", "user", emoji)
    \/ \E m \in Msgs : ExtractProfile(m, FALSE)
    \/ \E m \in Msgs : LLMResult(m, TRUE)
    \/ \E m \in Msgs, throws \in BOOLEAN : SendFetch(m, throws)
    \/ \E m \in Msgs, bridgeResult \in BridgeResults, cloned \in 0..1 :
          SendEmojis(m, bridgeResult, cloned)
    \/ \E m \in Msgs, ok \in BOOLEAN : SendWebhook(m, ok)
    \/ \E m \in Msgs, outcome \in FallbackOutcomes : SendFallback(m, outcome)
    \/ \E batch \in emojiCleanups : \E failed \in SUBSET batch : EmojiCleanup(batch, failed)

SpecTimers ==
    /\ InitSend /\ [][NextTimers]_vars
    /\ WF_vars(\E batch \in emojiCleanups : \E failed \in SUBSET batch :
                   EmojiCleanup(batch, failed))

(***************************************************************************)
(* SpecTranslate: translateAndQueue on top of TranslateLLMService.  The    *)
(* handler calls translate for its current target and goes on when the     *)
(* promise of that call is settled.                                        *)
(***************************************************************************)
\* The translate calls handler m has made for its current target.
RequestsOf(m) ==
    {r \in Requests : translation[r].caller = m /\ translation[r].target = nextTarget[m]}

\* tryLLMTranslation: fetchRecentMessages has returned (it never throws) and
\* TranslateLLMService.translate is called; valid: validateRequest accepts the
\* stored languages.
TryLLMTranslation(m, valid) ==
    LET r == llmCalls + 1
    IN  /\ pc[m] = "llm" /\ RequestsOf(m) = {}
        /\ r <= MaxRequests
        /\ llmCalls' = r
        /\ SetLLMState(translate(LLMState, r, valid, m, nextTarget[m]))
        /\ UNCHANGED <<now, pipelineVars, avatarVars>>

\* The promise of the translate call is settled: tryLLMTranslation returns
\* the translated text or rethrows.
LLMReturns(m) ==
    \E r \in RequestsOf(m) :
        /\ translation[r].state \in {"fulfilled", "rejected"}
        /\ LLMResult(m, translation[r].state = "fulfilled")

TranslateConfigs ==
    { <<SyncGroup("g1", <<ChannelLanguageConfig("A", "en"), ChannelLanguageConfig("B", "es")>>)>>,
      <<SyncGroup("g1", <<ChannelLanguageConfig("A", "en"), ChannelLanguageConfig("B", "es"),
                          ChannelLanguageConfig("C", "fr")>>)>> }

InitTranslate ==
    /\ syncData \in TranslateConfigs
    /\ InitPipeline
    /\ InitAvatarTables
    /\ fileExists = [p \in Paths |-> FALSE]

NextTranslate ==
    \/ HandleMessage("A", "user", FALSE)
    \/ \E m \in Msgs : ExtractProfile(m, FALSE)
    \/ \E m \in Msgs, valid \in BOOLEAN : TryLLMTranslation(m, valid)
    \/ \E m \in Msgs : LLMReturns(m)
    \/ \E m \in Msgs, ok \in BOOLEAN : GoogleResult(m, ok)
    \/ \E m \in Msgs : SendFetch(m, TRUE)
    \/ \E r \in Requests : RateLimitElapsed(r)
    \/ \E call \in outstanding, ok \in BOOLEAN : ProviderSettles(call, ok, FALSE)
    \/ \E r \in Requests : BackoffElapsed(r)
    \/ \E d \in TickSteps \ {TickMs} : Tick(d)

SpecTranslate == InitTranslate /\ [][NextTranslate]_vars

(***************************************************************************)
(* Properties of the pipeline.                                             *)
(***************************************************************************)
Arrived == 1..Len(messages)

\* handleMessage went past its guards and processSyncedMessage past its lookups.
Accepted(m) ==
    /\ m \in Arrived
    /\ messages[m].kind = "user"
    /\ SourceLanguage(m) # NoLanguage
    /\ Len(SyncGroupsOf(m)) # 0

Sending(m) == sending[m].phase # "idle"

\* A delivery of message m waits in a queue or is being sent.
DeliveryPending(m) ==
    \/ \E c \in Channels : \E i \in 1..Len(queue[c]) : queue[c][i].originalMessage = m
    \/ \E h \in Msgs : Sending(h) /\ sending[h].item.originalMessage = m

RECURSIVE SumOver(_, _)
SumOver(f, S) ==
    IF S = {} THEN 0
    ELSE LET x == CHOOSE y \in S : TRUE IN f[x] + SumOver(f, S \ {x})

\* The channels the claim calls configured targets of m with another language.
TranslatedTargets(m) ==
    {Targets(m)[i].channelId : i \in {k \in 1..Len(Targets(m)) :
        ~SkipsTranslation(SourceLanguage(m), Targets(m)[k].language)}}

\* C1: the sends to one channel are started in non-decreasing order of the
\* creation timestamps of their source messages.
C1_SendsInTimestampOrder ==
    \A c \in Channels : \A i, j \in 1..Len(sentLog[c]) :
        i < j => messages[sentLog[c][i]].createdTimestamp
                    <= messages[sentLog[c][j]].createdTimestamp

\* C2: no two sendTranslatedMessage calls for one destination channel are in
\* flight at the same time.
C2_OneSendPerChannel ==
    \A m1, m2 \in Msgs :
        (m1 # m2 /\ Sending(m1) /\ Sending(m2))
            => sending[m1].item.targetChannelId # sending[m2].item.targetChannelId

\* addToQueue was called for a channel while a drain of it was suspended in a send.
C2_Witness ==
    \E m \in Msgs :
        /\ Sending(m)
        /\ Len(queue[sending[m].item.targetChannelId]) > 0

\* The drains of channel c: the handlers suspended in a processQueue of its
\* queue (each awaits the send of an item of c).
DrainsOf(c) == {m \in Msgs : pc[m] = "drain" /\ sending[m].item.targetChannelId = c}

\* C36: a queue whose `processing` is false has an empty backlog, and
\* `processing` is true exactly while one processQueue loop of the queue runs.
C36_ProcessingIffDrainActive ==
    \A c \in Channels :
        /\ ~processing[c] => queue[c] = <<>>
        /\ processing[c] <=> Cardinality(DrainsOf(c)) = 1
        /\ Cardinality(DrainsOf(c)) <= 1
        /\ \A m \in Msgs : Sending(m) <=> pc[m] = "drain"

\* Two items were sent to B and the drain ended: `processing` is reset, the
\* backlog is empty and the handler that awaited the first send is through.
C36_Witness ==
    /\ Len(sentLog["B"]) >= 2 /\ ~processing["B"] /\ queue["B"] = <<>>
    /\ \E m \in Msgs : pc[m] = "done" /\ sentLog["B"][1] = m

\* C3: when the handler of an accepted message is through, every configured
\* target with another language has received exactly one delivery, and every
\* delivery carries the creation time of its source message.
C3_ExactlyOneDeliveryPerTarget ==
    /\ \A m \in Msgs : (Accepted(m) /\ pc[m] = "done") =>
          \A c \in TranslatedTargets(m) : enqueued[m][c] = 1
    /\ \A c \in Channels : \A i \in 1..Len(queue[c]) :
          queue[c][i].timestamp = messages[queue[c][i].originalMessage].createdTimestamp

\* The send that handler h was suspended in is over after this step.
SendEnds(h) ==
    /\ Sending(h)
    /\ sending'[h] # sending[h]
    /\ sending'[h].phase \in {"idle", "fetch"}

\* C4: every send of a delivery with a local avatar path calls removeReference
\* for the path exactly once and schedules the cleanup of the clones it made,
\* on every exit path.
C4_ReleaseOnEveryExit ==
    [][\A h \in Msgs : SendEnds(h) =>
          LET path == sending[h].item.profilePicturePath
              clones == sending[h].clonedEmojis
          IN  /\ path # NoPath => removeCalls'[path] = removeCalls[path] + 1
              /\ clones # {} => clones \in emojiCleanups']_vars

\* C8: the references added for a message are as many as the deliveries made
\* for it, so that the count is 0 and the deletion scheduled (or done) once all
\* its deliveries are sent.
C8_ReferencesMatchDeliveries ==
    \A m \in Msgs :
        (Accepted(m) /\ pc[m] = "done" /\ userProfile[m] # NoPath) =>
            /\ addCalls[userProfile[m]] = SumOver(enqueued[m], Channels)
            /\ ~DeliveryPending(m) =>
                  /\ pendingCleanups[userProfile[m]] = 0
                  /\ (TimersOf(userProfile[m]) # {} \/ ~fileExists[userProfile[m]])

\* C9: the avatar file of a message is on disk as long as a delivery of the
\* message waits in a queue or is being sent.
C9_AvatarKeptWhileDeliveryPending ==
    \A m \in Msgs :
        (userProfile[m] # NoPath /\ DeliveryPending(m)) => fileExists[userProfile[m]]

\* One delivery of a message has released its reference while another one of
\* the same message is still pending.
C9_Witness ==
    \E m \in Msgs :
        /\ userProfile[m] # NoPath
        /\ DeliveryPending(m)
        /\ removeCalls[userProfile[m]] >= 1

\* The generateText calls made for translate call r.
DispatchesOf(r) == {i \in 1..Len(dispatchLog) : dispatchLog[i].request = r}

\* C12: a translate call makes at most MAX_RETRIES attempts and none after a
\* success; when all of them failed the text of the delivery is the one of the
\* secondary translator with the fallback marker (or, when that failed too,
\* the error text), and the secondary translator is called once per target.
C12_FailoverWithinAttempts ==
    /\ [](/\ \A r \in Requests :
              /\ Cardinality(DispatchesOf(r)) = translation[r].attempt
              /\ translation[r].attempt <= MAX_RETRIES
          /\ \A e \in deliveryLog :
              /\ Cardinality(e.primary) <= 1
              /\ e.translatedText.body = "llmText" => e.primary = {"fulfilled"}
              /\ e.primary = {"rejected"} =>
                    e.translatedText \in
                        {[prefix |-> "", body |-> "googleText", suffix |-> FallbackMarker],
                         [prefix |-> ErrorPrefix, body |-> "content", suffix |-> ""]})
    /\ [][/\ \A r \in Requests :
              translation[r].state = "fulfilled" =>
                  /\ translation'[r].state = "fulfilled"
                  /\ DispatchesOf(r)' = DispatchesOf(r)
          /\ \A m \in Msgs :
              /\ (pc[m] # "google" /\ pc'[m] = "google") =>
                    /\ \A r \in RequestsOf(m) : translation[r].state = "rejected"
                    /\ ~\E e \in deliveryLog : e.message = m /\ e.target = nextTarget[m]
              /\ (pc[m] = "google" /\ pc'[m] # "google") =>
                    \E e \in deliveryLog' \ deliveryLog :
                        e.message = m /\ e.target = nextTarget[m]]_vars

\* A delivery whose primary translation failed MAX_RETRIES times and whose text
\* is the marked one of the secondary translator.
C12_Witness ==
    \E e \in deliveryLog :
        /\ e.primary = {"rejected"} /\ e.attempts = {MAX_RETRIES}
        /\ e.translatedText.suffix = FallbackMarker

\* The deliveries addToQueue received for target i of message m.
DeliveriesFor(m, i) == {e \in deliveryLog : e.message = m /\ e.target = i}

\* The text queued when both translators failed: the original content with
\* the error prefix.
Untranslated(e) ==
    e.translatedText = [prefix |-> ErrorPrefix, body |-> "content", suffix |-> ""]

\* C13: when the handler of an accepted message is through, every target with
\* another language has received a delivery, whatever the translators did for
\* it or for the targets before it; a delivery made after both translators
\* failed carries the original text with the error prefix.
C13_NoTargetDroppedOnFailure ==
    /\ \A m \in Msgs : (Accepted(m) /\ pc[m] = "done") =>
          \A i \in 1..Len(Targets(m)) :
              ~SkipsTranslation(SourceLanguage(m), Targets(m)[i].language)
                  => DeliveriesFor(m, i) # {}
    /\ \A e \in deliveryLog :
          (e.primary = {"rejected"} /\ e.translatedText.body # "googleText")
              => Untranslated(e)

\* Both translators failed for the first target of a message and its second
\* target got its delivery all the same.
C13_Witness ==
    \E m \in Msgs :
        /\ pc[m] = "done"
        /\ \E e \in DeliveriesFor(m, 1) : Untranslated(e)
        /\ DeliveriesFor(m, 2) # {}

\* The channel and the language of a delivery or a translator call of message
\* m are those of a member other than the source, in another language.
ProperTarget(m, channelId, language) ==
    /\ channelId # messages[m].channelId
    /\ toLowerCase(language) # toLowerCase(SourceLanguage(m))
    /\ \E g \in 1..Len(syncData) :
          /\ hasChannel(syncData[g].channels, messages[m].channelId)
          /\ \E i \in 1..Len(syncData[g].channels) :
                syncData[g].channels[i] = ChannelLanguageConfig(channelId, language)

\* C22: nothing is enqueued for the source channel or for a member with the
\* source's language (whatever the case of the letters), and no translator is
\* called for such a member.
C22_NoDeliveryToSourceOrSameLanguage ==
    /\ \A c \in Channels : \A i \in 1..Len(queue[c]) :
          /\ queue[c][i].targetChannelId = c
          /\ ProperTarget(queue[c][i].originalMessage, c, queue[c][i].targetLanguage)
    /\ \A m \in Msgs :
          /\ Sending(m) => ProperTarget(sending[m].item.originalMessage,
                                        sending[m].item.targetChannelId,
                                        sending[m].item.targetLanguage)
          /\ pc[m] \in {"llm", "google"} =>
                ProperTarget(m, Targets(m)[nextTarget[m]].channelId,
                             Targets(m)[nextTarget[m]].language)
          /\ \A c \in Channels :
                enqueued[m][c] > 0 =>
                    \E e \in deliveryLog :
                        e.message = m /\ ProperTarget(m, c, Targets(m)[e.target].language)
          /\ \A e \in deliveryLog :
                e.message = m =>
                    ProperTarget(m, Targets(m)[e.target].channelId, Targets(m)[e.target].language)

\* The handler of a message is through: the member with another language got
\* its delivery, the member with the source's language in capitals got none.
C22_Witness ==
    \E m \in Msgs :
        /\ pc[m] = "done" /\ messages[m].channelId = "A"
        /\ enqueued[m]["B"] = 1 /\ enqueued[m]["C"] = 0
        /\ \E g \in 1..Len(syncData) :
              \E i \in 1..Len(syncData[g].channels) :
                  syncData[g].channels[i] = ChannelLanguageConfig("C", "EN")

\* C25: whatever extractAndCloneEmojis does, the send goes on to the webhook:
\* the step in which the awaited call returns or throws leaves the same
\* delivery at sendWebhookMessage, with the rewritten text when it returned
\* and the translated text when it threw; no text other than these two is
\* handed to the webhook or to the plain post.
C25_EmojiFailureNeverFailsSend ==
    /\ [](\A m \in Msgs :
            sending[m].phase \in {"webhook", "fallback"}
                => sending[m].finalContent \in {"translatedContent", "processedContent"})
    /\ [][\A m \in Msgs :
            (sending[m].phase = "emoji" /\ sending'[m] # sending[m])
                => /\ sending'[m].phase = "webhook"
                   /\ sending'[m].item = sending[m].item
                   /\ sending'[m].finalContent \in {"translatedContent", "processedContent"}
                   /\ pc'[m] = "drain"]_vars

\* The text of a message with custom emojis is at the webhook as it was
\* translated: extractAndCloneEmojis has thrown.
C25_Witness ==
    \E m \in Msgs :
        /\ sending[m].phase = "webhook"
        /\ messages[sending[m].item.originalMessage].emoji
        /\ sending[m].finalContent = "translatedContent"
        /\ sending[m].clonedEmojis = {}

\* The send of handler m is over in this step: sendTranslatedMessage returns
\* or throws to processQueue, which shifts the next delivery or ends.
SendOver(m) == sending[m].phase \notin {"idle"} /\ sending'[m].phase \in {"idle", "fetch"}

\* C29: a delivery is posted at most once.  The webhook is tried first
\* (sendWebhookMessage is reached from the awaits before it only); the plain
\* post is tried exactly when sendWebhookMessage returned false, for the same
\* delivery; a true sendWebhookMessage and the end of the plain post (made,
\* refused for a channel that is not text based, or thrown) both end the
\* send, so that no delivery is posted by both paths or twice by one.
C29_OnePostPerDelivery ==
    /\ [](\A m \in Msgs :
            /\ sending[m].phase = "fallback" => sending[m].webhookSuccess = "false"
            /\ sending[m].phase # "fallback" => sending[m].webhookSuccess = "none")
    /\ [][\A m \in Msgs :
            sending'[m] # sending[m] =>
              /\ sending'[m].phase = "webhook"
                    => sending[m].phase \in {"fetch", "emoji"} /\ sending'[m].item = sending[m].item
              /\ sending'[m].phase = "fallback"
                    => sending[m].phase = "webhook" /\ sending'[m].item = sending[m].item
              /\ sending[m].phase = "webhook" => sending'[m].phase = "fallback" \/ SendOver(m)
              /\ sending[m].phase = "fallback" => SendOver(m)]_vars

\* The webhook of a delivery has failed and its plain post is under way.
C29_Witness ==
    \E m \in Msgs :
        /\ sending[m].phase = "fallback" /\ sending[m].webhookSuccess = "false"
        /\ sending[m].item.targetChannelId = "B"

\* The emojis of guild g the bot has created.
ClonesIn(g) == {e \in guildEmojis[g] : e.id > FirstCloneId}

\* cleanupEmoji has run for the clone with this id in guild g.
CleanedUp(emojiId, g) ==
    \E entry \in cleanupLog : entry.clone.clonedId = emojiId /\ entry.clone.guildId = g

\* The k-th clone of the pipeline, and whether a cleanup of it is scheduled.
SendClone(k) == CloneInfo(0, "", ClonedId(k), HomeGuild)
Scheduled(info) == \E batch \in emojiCleanups : info \in batch

\* C27: a cleanup is scheduled only in the step that ends the send which made
\* its clones, after the webhook or the plain post; a scheduled cleanup is
\* taken back by nothing but its run, which untracks every clone of it,
\* deletes it from its guild unless Discord refuses, and reschedules none;
\* and every scheduled cleanup does run.
C27_ScheduledCleanupRuns ==
    /\ [](\A entry \in cleanupLog : entry.by = "scheduled" => ~Scheduled(entry.clone))
    /\ [][\A batch \in emojiCleanups' \ emojiCleanups :
            \E m \in Msgs : /\ sending[m].clonedEmojis = batch
                            /\ sending[m].phase \in {"webhook", "fallback"}
                            /\ SendOver(m)]_vars
    /\ [][\A batch \in emojiCleanups \ emojiCleanups' :
            \A info \in batch :
                /\ info \notin temporaryEmojis'
                /\ ~Scheduled(info)'
                /\ \E entry \in cleanupLog' \ cleanupLog :
                      /\ entry.clone = info /\ entry.by = "scheduled"
                      /\ entry.deleted <=>
                            \A e \in guildEmojis'[info.guildId] : e.id # info.clonedId]_vars
    /\ \A k \in 1..MaxClones :
          Scheduled(SendClone(k)) ~>
              (~Scheduled(SendClone(k)) /\ SendClone(k) \notin temporaryEmojis
                 /\ CleanedUp(SendClone(k).clonedId, HomeGuild))

\* A scheduled cleanup has run and the deletion of its clone failed: the
\* clone is in the guild, untracked, with no cleanup scheduled.
C27_Witness ==
    \E entry \in cleanupLog :
        /\ entry.by = "scheduled" /\ ~entry.deleted
        /\ \E e \in guildEmojis[entry.clone.guildId] : e.id = entry.clone.clonedId
        /\ entry.clone \notin temporaryEmojis
        /\ emojiCleanups = {}

\* SpecShutdown: the pipeline of SpecSend in a process that SIGINT or SIGTERM
\* ends; an exited process takes no step.
NextShutdown ==
    \/ IsRunning /\ NextSend
    \/ \E event \in {"SIGINT", "SIGTERM"} : \E failed \in SUBSET temporaryEmojis :
          CleanupAllTemporaryEmojis(event, failed)
    \/ CleanupAllSettled

SpecShutdown == InitSend /\ [][NextShutdown]_vars

\* C28: when the process has exited on a signal, no clone is tracked, a
\* cleanupEmoji has run for every clone that is still in a guild, and
\* AvatarCleanupService.cleanupAll has run: no file is tracked in
\* pendingCleanups and no timer handle is kept.
C28_ShutdownCleansUp ==
    process.state = "exited" =>
        /\ temporaryEmojis = {}
        /\ \A g \in Guilds : \A e \in ClonesIn(g) : CleanedUp(e.id, g)
        /\ \A p \in DOMAIN pendingCleanups : pendingCleanups[p] = 0
        /\ \A p \in DOMAIN cleanupTimeouts : cleanupTimeouts[p] = NoTimer

\* handleMessage or processSyncedMessage returned at one of its guards.
Rejected(m) == m \in Arrived /\ ~Accepted(m)

\* C21: a message of a bot, without content, outside a server or from a
\* channel without language or sync group changes nothing when it arrives
\* (no reference, no translator call, no delivery, queues and cleanup tables
\* as they were) and nothing is ever done for it afterwards.
C21_RejectedMessageIsNoOp ==
    /\ [](\A m \in Msgs :
            Rejected(m) =>
                /\ pc[m] = "done" /\ nextTarget[m] = 0 /\ userProfile[m] = NoPath
                /\ \A c \in Channels : enqueued[m][c] = 0
                /\ ~Sending(m)
                /\ \A e \in deliveryLog : e.message # m
                /\ \A r \in Requests : translation[r].caller # m)
    /\ [][\A m \in Msgs :
            (m = Len(messages) + 1 /\ Len(messages') = m /\ ~Accepted(m)')
                => UNCHANGED <<llmVars, queueVars, emojiVars, avatarVars, nextTarget, userProfile>>]_vars

\* A message was rejected while the delivery of an earlier one was under way
\* with its avatar file referenced.
C21_Witness ==
    /\ Accepted(1) /\ Rejected(2)
    /\ messages[2].channelId = "A"
    /\ Sending(1) /\ userProfile[1] # NoPath /\ pendingCleanups[userProfile[1]] > 0

\* C20: a text handed to addToQueue ends with the fallback marker if and only
\* if the secondary translator produced it: the primary's text is queued as it
\* is, the secondary's text (queued only after the primary failed) always
\* with the marker.
C20_MarkerIffFallback ==
    \A e \in deliveryLog :
        /\ e.translatedText.suffix = FallbackMarker <=> e.translatedText.body = "googleText"
        /\ e.primary = {"fulfilled"} =>
              e.translatedText = [prefix |-> "", body |-> "llmText", suffix |-> ""]
        /\ e.translatedText.body = "googleText" =>
              (e.primary = {"rejected"} /\ e.translatedText.prefix = "")

\* One message got the primary's text for its first target and the
\* secondary's text, marked, for its second.
C20_Witness ==
    \E m \in Msgs :
        /\ \E e \in DeliveriesFor(m, 1) :
              e.primary = {"fulfilled"} /\ e.translatedText.suffix = ""
        /\ \E e \in DeliveriesFor(m, 2) :
              e.translatedText.body = "googleText" /\ e.translatedText.suffix = FallbackMarker

\* The items of the backlog of channel c.
Backlog(c) == {queue[c][i] : i \in 1..Len(queue[c])}

\* C14: the drain goes on after a send (whether it returned or threw): it is
\* followed at once by the send of the next item of the backlog, and no item
\* leaves a backlog other than to be sent.
C14_DrainGoesOnAfterFailure ==
    [][/\ \A h \in Msgs :
            LET c == sending[h].item.targetChannelId
                over == \/ sending'[h].phase = "idle"
                        \/ Len(sentLog'[c]) > Len(sentLog[c])
            IN  (Sending(h) /\ over /\ Len(queue[c]) > 0) =>
                    /\ sending'[h].item = Head(queue[c])
                    /\ sending'[h].phase = "fetch"
                    /\ queue'[c] = Tail(queue[c])
                    /\ processing'[c]
       /\ \A c \in Channels : \A x \in Backlog(c) :
            \/ x \in Backlog(c)'
            \/ /\ x = Head(queue[c])
               /\ sentLog'[c] = Append(sentLog[c], x.originalMessage)
               /\ \E h \in Msgs : sending'[h].item = x /\ sending'[h].phase = "fetch"]_vars

\* An item of the backlog is being sent right after the send before it threw.
C14_Witness ==
    \E h \in Msgs : Sending(h) /\ sending[h].afterCatch

(***************************************************************************)
(* SpecDrain: the queue of one target channel under messages that arrive   *)
(* while it drains.  Every call a send awaits (channels.fetch, the webhook,*)
(* the plain post) returns or throws in the end.                           *)
(***************************************************************************)
\* The await that the send of handler m is suspended in settles.
SendStep(m) ==
    \/ \E throws \in BOOLEAN : SendFetch(m, throws)
    \/ \E ok \in BOOLEAN : SendWebhook(m, ok)
    \/ \E outcome \in FallbackOutcomes : SendFallback(m, outcome)

NextDrain ==
    \/ \E kind \in MessageKinds : HandleMessage("A", kind, FALSE)
    \/ \E m \in Msgs, downloaded \in BOOLEAN : ExtractProfile(m, downloaded)
    \/ \E m \in Msgs : LLMResult(m, TRUE)
    \/ \E m \in Msgs : SendStep(m)
    \/ \E t \in timers : TimerFire(t)
    \/ \E t \in timers : TimerDone(t)

SpecDrain == InitSend /\ [][NextDrain]_vars /\ \A m \in Msgs : WF_vars(SendStep(m))

RECURSIVE Count(_, _)
Count(log, x) ==
    IF log = <<>> THEN 0
    ELSE (IF Head(log) = x THEN 1 ELSE 0) + Count(Tail(log), x)

\* The queue of channel c is idle and every delivery it received was attempted.
Drained(c) ==
    /\ queue[c] = <<>> /\ ~processing[c]
    /\ \A m \in Msgs : Count(sentLog[c], m) = enqueued[m][c]

\* C15: every delivery a queue received is attempted in the end, also one
\* received while the queue drains, and the queue is then idle with an empty
\* backlog.
C15_EveryDeliveryAttempted ==
    \A c \in Channels : (Len(queue[c]) > 0 \/ processing[c]) ~> Drained(c)

\* The drain of one handler is sending a delivery that another handler
\* enqueued while that drain was in progress.
C15_Witness ==
    \E h \in Msgs : Sending(h) /\ sending[h].item.originalMessage # h

(***************************************************************************)
(* SpecStall: one group of three channels; the sends to channel B may take *)
(* for ever, every other awaited call settles in the end.                  *)
(***************************************************************************)
SlowChannel == "B"

InitStall ==
    /\ syncData = <<SyncGroup("g1", <<ChannelLanguageConfig("A", "en"),
                                      ChannelLanguageConfig("B", "es"),
                                      ChannelLanguageConfig("C", "fr")>>)>>
    /\ InitPipeline
    /\ InitAvatarTables
    /\ fileExists = [p \in Paths |-> FALSE]

\* A step of the handler of m other than in a send.
HandlerStep(m) ==
    \/ \E downloaded \in BOOLEAN : ExtractProfile(m, downloaded)
    \/ LLMResult(m, TRUE)

\* A step of a send of handler m to a channel other than the slow one.
FastSendStep(m) == sending[m].item.targetChannelId # SlowChannel /\ SendStep(m)

NextStall ==
    \/ HandleMessage("A", "user", FALSE)
    \/ \E m \in Msgs : HandlerStep(m)
    \/ \E m \in Msgs : SendStep(m)
    \/ \E t \in timers : TimerFire(t)
    \/ \E t \in timers : TimerDone(t)

SpecStall ==
    /\ InitStall /\ [][NextStall]_vars
    /\ \A m \in Msgs : WF_vars(HandlerStep(m)) /\ WF_vars(FastSendStep(m))

\* C16: whatever happens to the sends to the slow channel, a delivery of every
\* accepted message is sent to each other target channel in the end.
C16_QueuesDrainIndependently ==
    \A m \in Msgs : \A c \in Channels \ {SlowChannel} :
        (Accepted(m) /\ c \in TranslatedTargets(m)) ~> (Count(sentLog[c], m) >= 1)

\* SpecLLM: TranslateLLMService under concurrent translate calls.
InitLLMService ==
    /\ syncData = <<>>
    /\ InitPipeline
    /\ InitAvatarTables
    /\ fileExists = [p \in Paths |-> FALSE]

NextLLM ==
    \/ \E request \in TranslationRequests :
            Translate(TranslateLLMService_validateRequest(request) = Valid)
    \/ \E r \in Requests : RateLimitElapsed(r)
    \/ \E call \in outstanding, ok, isTimeout \in BOOLEAN : ProviderSettles(call, ok, isTimeout)
    \/ \E r \in Requests : AttemptTimesOut(r)
    \/ \E r \in Requests : BackoffElapsed(r)
    \/ \E d \in LeapSteps : Tick(d)

SpecLLM == InitLLMService /\ [][NextLLM]_vars

\* C33: a translate call made after an earlier one failed is still run: a
\* valid request is never rejected without a generateText call made for it.
C33_FailureDoesNotAffectLaterRequests ==
    \A r \in 1..llmCalls :
        (translation[r].valid /\ translation[r].state = "rejected") => DispatchesOf(r) # {}

\* C10: at most one request to the primary translator is outstanding.
C10_SingleFlight == Cardinality(outstanding) <= 1

NextRate ==
    \/ \E valid \in BOOLEAN : Translate(valid)
    \/ \E r \in Requests : RateLimitElapsed(r)
    \/ \E call \in outstanding, ok, isTimeout \in BOOLEAN : ProviderSettles(call, ok, isTimeout)
    \/ \E r \in Requests : BackoffElapsed(r)
    \/ \E d \in TickSteps : Tick(d)

SpecRate == InitLLMService /\ [][NextRate]_vars

\* C11: two consecutive calls of generateText are at least RATE_LIMIT_MS apart.
C11_DispatchesSpacedByRateLimit ==
    \A i \in 1..(Len(dispatchLog) - 1) :
        dispatchLog[i + 1].time - dispatchLog[i].time >= RATE_LIMIT_MS


(***************************************************************************)
(* SpecValidate: the two validators on every request of TranslationRequests.*)
(***************************************************************************)
InitValidate ==
    /\ syncData = <<>>
    /\ InitTranslator
    /\ InitHandlers
    /\ InitAvatarTables
    /\ fileExists = [p \in Paths |-> FALSE]
    /\ validationRequest \in TranslationRequests
    /\ validationResult = NotValidated

NextValidate == ValidateLLM \/ ValidateGoogle

SpecValidate == InitValidate /\ [][NextValidate]_vars

\* C18: the secondary translator's validator accepts a request if and only if
\* the primary translator's validator accepts it.
C18_SameValidationRules ==
    (validationResult.llm # NotCalled /\ validationResult.google # NotCalled)
        => (validationResult.llm = Valid <=> validationResult.google = Valid)

(***************************************************************************)
(* SpecEmoji: EmojiSyncService under every sequence of calls of its public *)
(* operations, one extractAndCloneEmojis at a time, and the shutdown of    *)
(* the process.  G1 has the emoji a (id 1); G2 has none or its own emoji a *)
(* (id 7); the emoji b (id 2) is of no guild the bot is in.                *)
(***************************************************************************)
EmojiContents ==
    { <<Token("a", 1)>>, <<Token("b", 2)>>, <<Token("a", 1), Token("b", 2)>>,
      <<Token("b", 2), Token("b", 2)>> }

\* What the bot may and can do in G2: everything, one emoji below the limit,
\* at the limit of each tier, without the permission, its member not cached.
GuildInfoChoices ==
    { PlainGuild,
      [permission |-> "granted", premiumTier |-> 0, others |-> 49],
      [permission |-> "granted", premiumTier |-> 0, others |-> 50],
      [permission |-> "granted", premiumTier |-> 1, others |-> 100],
      [permission |-> "granted", premiumTier |-> 2, others |-> 150],
      [permission |-> "denied", premiumTier |-> 0, others |-> 0],
      [permission |-> "uncached", premiumTier |-> 0, others |-> 0] }

InitEmoji ==
    /\ syncData = <<>>
    /\ InitLLM
    /\ messages = <<>>
    /\ pc = [m \in Msgs |-> "none"]
    /\ nextTarget = [m \in Msgs |-> 0]
    /\ userProfile = [m \in Msgs |-> NoPath]
    /\ queue = [c \in Channels |-> <<>>]
    /\ processing = [c \in Channels |-> FALSE]
    /\ sending = [m \in Msgs |-> NoSend]
    /\ sentLog = [c \in Channels |-> <<>>]
    /\ enqueued = [m \in Msgs |-> [c \in Channels |-> 0]]
    /\ deliveryLog = {}
    /\ InitAvatarTables
    /\ fileExists = [p \in Paths |-> FALSE]
    /\ InitEmojiService
    /\ process = Running
    /\ \E own \in {{}, {Emoji(7, "a")}} :
          guildEmojis = [g \in Guilds |-> IF g = HomeGuild THEN {Emoji(1, "a")} ELSE own]
    /\ \E info \in GuildInfoChoices :
          guildInfo = [g \in Guilds |-> IF g = HomeGuild THEN PlainGuild ELSE info]

NextEmoji ==
    \/ \E content \in EmojiContents, sourceGuild, targetGuild \in Guilds :
          ExtractAndCloneEmojis(content, sourceGuild, targetGuild)
    \/ \E outcome \in FetchOutcomes : FetchSettles(outcome)
    \/ \E ok \in BOOLEAN : CreateSettles(ok)
    \/ ScheduleEmojiCleanup
    \/ \E batch \in emojiCleanups : \E failed \in SUBSET batch :
          IsRunning /\ EmojiCleanup(batch, failed)

SpecEmoji == InitEmoji /\ [][NextEmoji]_vars

\* SpecCleanup: texts with the one emoji b, which is cloned into either
\* guild, under emergencyCleanup, cleanupAllTemporaryEmojis and the events
\* that end the process.
InitCleanup ==
    /\ InitEmoji
    /\ guildEmojis[HomeGuild] = {Emoji(1, "a")} /\ \A g \in Guilds \ {HomeGuild} : guildEmojis[g] = {}
    /\ \A g \in Guilds : guildInfo[g] = PlainGuild

NextCleanup ==
    \/ \E targetGuild \in Guilds :
          ExtractAndCloneEmojis(<<Token("b", 2)>>, HomeGuild, targetGuild)
    \/ FetchSettles("found")
    \/ \E ok \in BOOLEAN : CreateSettles(ok)
    \/ ScheduleEmojiCleanup
    \/ \E batch \in emojiCleanups : \E failed \in SUBSET batch :
          IsRunning /\ EmojiCleanup(batch, failed)
    \/ \E guildId \in Guilds \cup {""} : \E failed \in SUBSET temporaryEmojis :
          EmergencyCleanup(guildId, failed)
    \/ \E event \in {"disconnect", "SIGINT", "SIGTERM"} : \E failed \in SUBSET temporaryEmojis :
          CleanupAllTemporaryEmojis(event, failed)
    \/ CleanupAllSettled

SpecCleanup == InitCleanup /\ [][NextCleanup]_vars

\* SpecEmergency: the same, with scheduled cleanups whose deletions succeed.
NextEmergency ==
    \/ \E targetGuild \in Guilds :
          ExtractAndCloneEmojis(<<Token("b", 2)>>, HomeGuild, targetGuild)
    \/ FetchSettles("found")
    \/ \E ok \in BOOLEAN : CreateSettles(ok)
    \/ ScheduleEmojiCleanup
    \/ \E batch \in emojiCleanups : IsRunning /\ EmojiCleanup(batch, {})
    \/ \E guildId \in Guilds \cup {""} : \E failed \in SUBSET temporaryEmojis :
          EmergencyCleanup(guildId, failed)
    \/ \E event \in {"disconnect", "SIGINT", "SIGTERM"} : \E failed \in SUBSET temporaryEmojis :
          CleanupAllTemporaryEmojis(event, failed)
    \/ CleanupAllSettled

SpecEmergency == InitCleanup /\ [][NextEmergency]_vars

\* The tokens the running extractAndCloneEmojis is through with.
Processed == {tokenLog[i] : i \in 1..Len(tokenLog)}

\* The target guild has an emoji with the token's id or name.
InTarget(entry) ==
    \E e \in guildEmojis[bridge.targetGuild] :
        e.id = entry.token.id \/ e.name = entry.token.name

\* The records of clonedEmojis made for the token at `match`.
CloneRecordsOf(entry) ==
    {i \in 1..Len(bridge.clonedEmojis) :
        /\ bridge.clonedEmojis[i] = entry.clone
        /\ bridge.clonedEmojis[i].originalId = entry.token.id}

\* Outcome (1): the token is rewritten to the target guild's own emoji.
RewrittenToExisting(entry) ==
    /\ entry.existing \in guildEmojis[bridge.targetGuild]
    /\ entry.existing.id = entry.token.id \/ entry.existing.name = entry.token.name
    /\ entry.replacement = Token(entry.existing.name, entry.existing.id)
    /\ entry.clone = NoClone

\* Outcome (2): one clone record, and the token references the clone.
RewrittenToClone(entry) ==
    /\ entry.clone # NoClone
    /\ Cardinality(CloneRecordsOf(entry)) = 1
    /\ entry.clone.guildId = bridge.targetGuild
    /\ entry.replacement.kind = "emoji" /\ entry.replacement.id = entry.clone.clonedId

\* Outcome (3): the token is its display name, and there is no clone record.
Degraded(entry) ==
    /\ entry.replacement = DisplayName(entry.token.name)
    /\ entry.clone = NoClone

CloneFailures == {"noPermission", "atLimit", "createFailed"}

\* C23 (as the code has it): every token extractAndCloneEmojis is through
\* with has exactly one of the outcomes: the target guild has an emoji with
\* its id or name, and the token is rewritten to it, with no clone record;
\* or the target has none, the source emoji was located and the clone was
\* created, with exactly one clone record and the token rewritten to the
\* clone; or the target has none and the source emoji was not located, or
\* was located and could not be cloned, and the token is :name: with no
\* clone record.  The text has the replacement where the token was, and
\* there are as many clone records as tokens rewritten to a clone.
C23_OneOutcomePerToken ==
    /\ \A entry \in Processed :
          /\ InTarget(entry) <=> entry.outcome = "existing"
          /\ entry.outcome = "existing" => RewrittenToExisting(entry)
          /\ entry.outcome = "cloned" => entry.located /\ RewrittenToClone(entry)
          /\ entry.outcome = "notLocated" => ~entry.located /\ Degraded(entry)
          /\ entry.outcome \in CloneFailures => entry.located /\ Degraded(entry)
          /\ entry.outcome \in {"existing", "cloned", "notLocated"} \cup CloneFailures
          /\ bridge.processedContent[entry.match] = entry.replacement
    /\ bridge.pc # "idle" =>
          Len(bridge.clonedEmojis)
              = Cardinality({i \in 1..Len(tokenLog) : tokenLog[i].outcome = "cloned"})
    /\ \A i \in 1..Len(tokenLog) : tokenLog[i].match = i /\ tokenLog[i].token = bridge.content[i]

\* C23 as stated: absent from the target and found in the source means one
\* clone record and a token that references the clone.
C23_ThreeOutcomes ==
    \A entry \in Processed :
        /\ InTarget(entry) => RewrittenToExisting(entry)
        /\ (~InTarget(entry) /\ entry.located) => RewrittenToClone(entry)
        /\ (~InTarget(entry) /\ ~entry.located) => Degraded(entry)

\* Two tokens of the emoji b: the first was cloned, the creation of the second
\* clone failed.
C23_Witness ==
    /\ bridge.pc = "done" /\ Len(tokenLog) = 2
    /\ tokenLog[1].outcome = "cloned" /\ tokenLog[2].outcome = "createFailed"
    /\ Len(bridge.clonedEmojis) = 1
    /\ bridge.processedContent[2] = DisplayName("b")

\* The entries of the token log the step has added.
NewEntries ==
    {tokenLog'[i] : i \in (IF Len(tokenLog') >= Len(tokenLog) /\ bridge.pc # "idle"
                           THEN Len(tokenLog) + 1 ELSE 1) .. Len(tokenLog')}

\* C24: no emoji is cloned into a guild that is at its emoji limit or in
\* which the bot has no permission to manage emojis (a guild without the
\* permission has no clone; a guild with a clone is within its limit; a
\* token rewritten to a clone saw the permission and a free slot); a token
\* that met the limit, the missing permission or a failed creation is :name:
\* with no clone record, and the step that processes such tokens only
\* creates, records and tracks no clone.
C24_NoCloneWithoutSlotOrPermission ==
    /\ [](\A g \in Guilds :
            /\ guildInfo[g].permission # "granted" => ClonesIn(g) = {}
            /\ ClonesIn(g) # {} => Cardinality(guildEmojis[g]) + guildInfo[g].others
                                      <= maxEmojis(guildInfo[g].premiumTier))
    /\ [](\A entry \in Processed :
            /\ entry.outcome = "cloned"
                  => entry.permission = "granted" /\ entry.currentEmojis < entry.maxEmojis
            /\ (entry.outcome # "existing" /\ entry.located /\
                  (entry.permission # "granted" \/ entry.currentEmojis >= entry.maxEmojis))
                  => entry.outcome \in {"noPermission", "atLimit"}
            /\ entry.outcome \in CloneFailures => Degraded(entry))
    /\ [][(NewEntries # {} /\ \A entry \in NewEntries : entry.outcome # "cloned")
            => /\ clonesMade' = clonesMade
               /\ temporaryEmojis' = temporaryEmojis
               /\ guildEmojis' = guildEmojis
               /\ bridge.pc # "idle" => bridge'.clonedEmojis = bridge.clonedEmojis
               /\ bridge.pc = "idle" => bridge'.clonedEmojis = <<>>]_vars

\* A guild one emoji below its limit: the first token b was cloned, the second
\* met the limit; nothing but the first clone is tracked.
C24_Witness ==
    /\ Len(tokenLog) = 2
    /\ tokenLog[1].outcome = "cloned" /\ tokenLog[2].outcome = "atLimit"
    /\ tokenLog[2].currentEmojis = 50 /\ tokenLog[2].maxEmojis = 50
    /\ Cardinality(temporaryEmojis) = 1
    /\ bridge.processedContent[2] = DisplayName("b")

\* C26: isTemporaryEmoji is true for a clone from its recording to its
\* cleanup (a clone in a guild that no cleanupEmoji has run for is tracked),
\* and false ever after (no clone that a cleanupEmoji has run for is tracked).
C26_TrackedUntilCleanup ==
    /\ \A g \in Guilds : \A e \in ClonesIn(g) :
          ~CleanedUp(e.id, g) => isTemporaryEmoji(temporaryEmojis, e.id, g)
    /\ \A entry \in cleanupLog :
          ~isTemporaryEmoji(temporaryEmojis, entry.clone.clonedId, entry.clone.guildId)

\* C39: a clone is not dropped from temporaryEmojis unless cleanupEmoji has
\* run for it, also when it was recorded while cleanupAllTemporaryEmojis
\* awaited its deletions: every clone that is in a guild and that no
\* cleanupEmoji has run for is tracked.
C39_CloneRecordedDuringCleanupAllKept ==
    /\ [][\A info \in temporaryEmojis \ temporaryEmojis' :
             \E entry \in cleanupLog' : entry.clone = info]_vars
    /\ [](\A g \in Guilds : \A e \in ClonesIn(g) :
             CleanedUp(e.id, g) \/ \E info \in temporaryEmojis :
                                      info.guildId = g /\ info.clonedId = e.id)

\* C40: cleanupEmoji, and with it the deletion of the emoji from its guild,
\* is called at most once for a clone, whoever calls it (the scheduled timer,
\* cleanupAllTemporaryEmojis, emergencyCleanup).
C40_DeletionRequestedOnce ==
    \A e1, e2 \in cleanupLog : e1.clone = e2.clone => e1 = e2

\* The cleanupEmoji calls of this step.
NewCleanups == cleanupLog' \ cleanupLog

\* The tracked clones emergencyCleanup(guildId) is about.
Scope(guildId) ==
    IF guildId = "" THEN temporaryEmojis ELSE {info \in temporaryEmojis : info.guildId = guildId}

\* C30: emergencyCleanup(guildId) runs cleanupEmoji for exactly the tracked
\* clones of guildId: they leave the tracking table and, unless Discord
\* refuses the deletion, their guild, and the tracked clones and the emojis
\* of every other guild are as before; emergencyCleanup() and
\* cleanupAllTemporaryEmojis() do so for every tracked clone, and the table
\* is empty when cleanupAllTemporaryEmojis returns.
C30_EmergencyCleanupScope ==
    /\ [][\A entry \in NewCleanups :
            entry.by \in {"emergency", "all"} =>
              /\ {e.clone : e \in {x \in NewCleanups : x.by = entry.by}} = Scope(entry.guildId)
              /\ temporaryEmojis' = temporaryEmojis \ Scope(entry.guildId)
              /\ entry.deleted =>
                    \A e \in guildEmojis'[entry.clone.guildId] : e.id # entry.clone.clonedId
              /\ \A g \in Guilds :
                    guildEmojis'[g] = {e \in guildEmojis[g] :
                        \A x \in NewCleanups :
                            ~(x.deleted /\ x.clone.guildId = g /\ x.clone.clonedId = e.id)}
              /\ \A g \in Guilds \ {entry.guildId} :
                    entry.guildId # "" =>
                      /\ guildEmojis'[g] = guildEmojis[g]
                      /\ {info \in temporaryEmojis' : info.guildId = g}
                            = {info \in temporaryEmojis : info.guildId = g}]_vars
    /\ [][(process.cleanupAll # "none" /\ process'.cleanupAll = "none")
            => temporaryEmojis' = {}]_vars

\* emergencyCleanup("G2") has deleted the clone of G2; the clone of G1 is in
\* its guild and tracked.
C30_Witness ==
    /\ \E entry \in cleanupLog :
          entry.by = "emergency" /\ entry.guildId = "G2" /\ entry.deleted
    /\ \E info \in temporaryEmojis :
          info.guildId = "G1" /\ \E e \in guildEmojis["G1"] : e.id = info.clonedId
    /\ ClonesIn("G2") = {}

(***************************************************************************)
(* SpecAvatar: the service under every sequence of calls of its public     *)
(* addReference / removeReference on already downloaded files.             *)
(***************************************************************************)
CallBudget(p) == addCalls[p] + removeCalls[p] < MaxCalls

AddReference(p) ==
    /\ CallBudget(p)
    /\ SetAvatarState(addReference(AvatarState, p))
    /\ UNCHANGED <<fileExists, deletions, pipelineVars, llmVars>>

RemoveReference(p) ==
    /\ CallBudget(p)
    /\ RemoveSchedules(AvatarState, p) => CanSetTimeout(timers)
    /\ SetAvatarState(removeReference(AvatarState, p))
    /\ UNCHANGED <<fileExists, deletions, pipelineVars, llmVars>>

InitAvatar ==
    /\ syncData = <<>>
    /\ InitPipeline
    /\ InitAvatarTables
    /\ fileExists = [p \in Paths |-> TRUE]

NextAvatar ==
    \/ \E p \in ApiPaths : AddReference(p)
    \/ \E p \in ApiPaths : RemoveReference(p)
    \/ \E t \in timers : TimerFire(t)
    \/ \E t \in timers : TimerDone(t)

SpecAvatar == InitAvatar /\ [][NextAvatar]_vars

C6_GraceWindowCancel ==
    [][\A p \in Paths :
          /\ (pendingCleanups[p] > 0 /\ pendingCleanups'[p] = 0) => fileExists'[p] = fileExists[p]
          /\ addCalls'[p] > addCalls[p] =>
                ~\E t \in timers' : t.path = p /\ t.state = "pending"]_vars

\* C7: a deletion is scheduled only by a step that moves the count of the path
\* from a positive value to 0.
C7_ScheduledOnlyOnTransitionToZero ==
    [][\A p \in Paths :
          (\E t \in timers' : t.path = p /\ t.state = "pending" /\ t \notin timers)
              => (pendingCleanups[p] > 0 /\ pendingCleanups'[p] = 0)]_vars

\* C37: every path has at most one deletion timer pending, and a pending
\* deletion timer is the one cleanupTimeouts holds for its path (so that the
\* next addReference clears it), whatever calls and timer firings came before.
C37_OnePendingTimerPerPath ==
    \A p \in Paths :
        /\ Cardinality({t \in TimersOf(p) : t.state = "pending"}) <= 1
        /\ \A t \in TimersOf(p) : t.state = "pending" => cleanupTimeouts[p] = t.id

(***************************************************************************)
(* AvatarCleanupService.forceCleanup and cleanupAll.  Both run their table  *)
(* updates synchronously and are then suspended in the file deletions; the  *)
(* record of a suspended call keeps `tracked`, the paths that had an entry  *)
(* in either table when the call started (history, not program state).     *)
(***************************************************************************)
Tracked(s) == {p \in Paths : s.pendingCleanups[p] > 0 \/ s.cleanupTimeouts[p] # NoTimer}

\* forceCleanup up to its await: the handle stored for the path is cleared
\* and both entries of the path are dropped.
forceCleanup(s, filePath) ==
    LET existingTimeout == s.cleanupTimeouts[filePath]
    IN  [s EXCEPT
           !.timers = IF existingTimeout # NoTimer
                      THEN clearTimeout(s.timers, existingTimeout) ELSE @,
           !.cleanupTimeouts[filePath] = NoTimer,
           !.pendingCleanups[filePath] = 0]

\* cleanupAll up to its await: every handle stored in cleanupTimeouts is
\* cleared and the Map emptied; pendingCleanups is left for after the await.
cleanupAll(s) ==
    [s EXCEPT
       !.timers = {t \in s.timers :
                      ~(t.state = "pending" /\ \E p \in Paths : s.cleanupTimeouts[p] = t.id)},
       !.cleanupTimeouts = [p \in Paths |-> NoTimer]]

ForceCleanup(p) ==
    /\ ~\E call \in avatarCalls : call.op = "forceCleanup"
    /\ SetAvatarState(forceCleanup(AvatarState, p))
    /\ avatarCalls' = avatarCalls \cup
          {[op |-> "forceCleanup", paths |-> {p}, tracked |-> Tracked(AvatarState)]}
    /\ UNCHANGED <<fileExists, deletions, pipelineVars, storageCalls, webhookVars, serviceVars, validationVars, bridgeVars>>

\* `return await UserUtils.deleteProfilePicture(filePath)` settles.
ForceCleanupDone(call) ==
    /\ call \in avatarCalls /\ call.op = "forceCleanup"
    /\ fileExists' = [p \in Paths |-> fileExists[p] /\ p \notin call.paths]
    /\ deletions' = [p \in Paths |->
                        IF p \in call.paths /\ fileExists[p] THEN deletions[p] + 1
                        ELSE deletions[p]]
    /\ avatarCalls' = avatarCalls \ {call}
    /\ UNCHANGED <<pendingCleanups, cleanupTimeouts, timers, addCalls, removeCalls, orderly,
                   pipelineVars, storageCalls, webhookVars, serviceVars, validationVars, bridgeVars>>

\* The deletions are started for the keys of pendingCleanups, that is for the
\* paths with a positive count.
CleanupAll ==
    /\ ~\E call \in avatarCalls : call.op = "cleanupAll"
    /\ SetAvatarState(cleanupAll(AvatarState))
    /\ avatarCalls' = avatarCalls \cup
          {[op |-> "cleanupAll", paths |-> {p \in Paths : pendingCleanups[p] > 0},
            tracked |-> Tracked(AvatarState)]}
    /\ UNCHANGED <<fileExists, deletions, pipelineVars, storageCalls, webhookVars, serviceVars, validationVars, bridgeVars>>

\* `await Promise.allSettled(cleanupPromises)` settles, then pendingCleanups.clear().
CleanupAllDone(call) ==
    /\ call \in avatarCalls /\ call.op = "cleanupAll"
    /\ fileExists' = [p \in Paths |-> fileExists[p] /\ p \notin call.paths]
    /\ deletions' = [p \in Paths |->
                        IF p \in call.paths /\ fileExists[p] THEN deletions[p] + 1
                        ELSE deletions[p]]
    /\ pendingCleanups' = [p \in Paths |-> 0]
    /\ avatarCalls' = avatarCalls \ {call}
    /\ UNCHANGED <<cleanupTimeouts, timers, addCalls, removeCalls, orderly,
                   pipelineVars, storageCalls, webhookVars, serviceVars, validationVars, bridgeVars>>

\* SpecForce: SpecAvatar's callers, and forceCleanup called at any time.
NextForce ==
    \/ \E p \in ApiPaths : AddReference(p)
    \/ \E p \in ApiPaths : RemoveReference(p)
    \/ \E t \in timers : TimerFire(t)
    \/ \E t \in timers : TimerDone(t)
    \/ \E p \in ApiPaths : ForceCleanup(p)
    \/ \E call \in avatarCalls : ForceCleanupDone(call)

SpecForce == InitAvatar /\ [][NextForce]_vars

Started(op) == {call \in avatarCalls' : call.op = op} \ avatarCalls
Ended(op) == {call \in avatarCalls : call.op = op} \ avatarCalls'

\* C31: forceCleanup(path), whatever the pending count of the path: once its
\* synchronous part has run the path has no entry in pendingCleanups, none in
\* cleanupTimeouts and no deletion timer of the path is pending; once the
\* call has returned the file is gone.
C31_ForceCleanupUnconditional ==
    [][/\ \A call \in Started("forceCleanup") : \A p \in call.paths :
             /\ pendingCleanups'[p] = 0
             /\ cleanupTimeouts'[p] = NoTimer
             /\ ~\E t \in timers' : t.path = p /\ t.state = "pending"
       /\ \A call \in Ended("forceCleanup") : \A p \in call.paths : ~fileExists'[p]]_vars

\* SpecCleanupAll: SpecAvatar's callers, and cleanupAll called at any time.
NextCleanupAll ==
    \/ \E p \in ApiPaths : AddReference(p)
    \/ \E p \in ApiPaths : RemoveReference(p)
    \/ \E t \in timers : TimerFire(t)
    \/ \E t \in timers : TimerDone(t)
    \/ CleanupAll
    \/ \E call \in avatarCalls : CleanupAllDone(call)

SpecCleanupAll == InitAvatar /\ [][NextCleanupAll]_vars

\* C38: when cleanupAll returns, pendingCleanups and cleanupTimeouts are empty
\* and every file that had an entry in either table when the call started is
\* gone, the files that only waited for their deletion timer included.
C38_CleanupAllDeletesEveryTrackedFile ==
    [][\A call \in Ended("cleanupAll") :
          /\ \A p \in Paths : pendingCleanups'[p] = 0 /\ cleanupTimeouts'[p] = NoTimer
          /\ \A p \in call.tracked : ~fileExists'[p]]_vars

(***************************************************************************)
(* SpecStorage: the /sync-language handlers and removeChannelFromGroup     *)
(* callers working on one stored file, each call between its load and its  *)
(* save while other calls load and save.                                   *)
(***************************************************************************)
InitStorage ==
    /\ syncData = <<>>
    /\ InitPipeline
    /\ InitAvatarTables
    /\ fileExists = [p \in Paths |-> FALSE]

NextStorage ==
    \/ \E i \in Interactions, channelGroupId \in StorageGroups, channelId \in StorageChannels,
          language \in StorageLanguages :
            StorageLoad(i, "add", channelGroupId, channelId, language)
    \/ \E i \in Interactions, channelGroupId \in StorageGroups, channelId \in StorageChannels :
            StorageLoad(i, "remove", channelGroupId, channelId, NoLanguage)
    \/ \E i \in Interactions, written \in BOOLEAN : AddChannelSave(i, written)
    \/ \E i \in Interactions, written \in BOOLEAN : RemoveChannelSave(i, written)

SpecStorage == InitStorage /\ [][NextStorage]_vars

ChannelIdsUnique(channels) ==
    \A j, k \in 1..Len(channels) : channels[j].channelId = channels[k].channelId => j = k

\* An addChannelToGroup call of interaction i ends in this step with its save.
AddSaved(i) ==
    /\ storageCalls[i].op = "add"
    /\ storageCalls'[i].op = "none" /\ storageCalls'[i].last # "failed"

\* C32: in the stored data no group holds a channelId twice, whatever
\* addChannelToGroup and removeChannelFromGroup calls were made; a call that adds
\* a channel its group already holds saves the group with the same members in
\* the same places and the new language at the place of the channel.
C32_ChannelIdUniqueInGroup ==
    /\ [](\A g \in 1..Len(syncData) : ChannelIdsUnique(syncData[g].channels))
    /\ [][\A i \in Interactions :
            (AddSaved(i) /\ storageCalls'[i].last = "replaced") =>
                LET call == storageCalls[i]
                    before == call.data[groupIndex(call.data, call.channelGroupId)].channels
                    after == syncData'[groupIndex(syncData', call.channelGroupId)].channels
                IN  /\ Len(after) = Len(before)
                    /\ \A k \in 1..Len(before) :
                          /\ after[k].channelId = before[k].channelId
                          /\ after[k].language =
                                IF before[k].channelId = call.channelId
                                THEN call.language ELSE before[k].language]_vars

\* A channel's language was replaced in a group of two members.
C32_Witness ==
    /\ \E i \in Interactions : storageCalls[i].op = "none" /\ storageCalls[i].last = "replaced"
    /\ \E g \in 1..Len(syncData) : Len(syncData[g].channels) = 2
    /\ \E i \in Interactions : storageCalls[i].op = "none" /\ storageCalls[i].last = "removed"

(***************************************************************************)
(* SpecQueue: one MessageQueue (the one of channel B) under addMessage      *)
(* calls of callers outside the pipeline, with any timestamps.  The item   *)
(* being sent is sending[1].item; originalMessage numbers the items in the *)
(* order of their addMessage calls.                                        *)
(***************************************************************************)
QueueChannel == "B"
Timestamps == 1..MaxMsgs

MessageQueueState ==
    [queue |-> queue[QueueChannel], processing |-> processing[QueueChannel],
     current |-> sending[1], sent |-> sentLog[QueueChannel]]

SetMessageQueueState(mq) ==
    /\ queue' = [queue EXCEPT ![QueueChannel] = mq.queue]
    /\ processing' = [processing EXCEPT ![QueueChannel] = mq.processing]
    /\ sending' = [sending EXCEPT ![1] = mq.current]
    /\ sentLog' = [sentLog EXCEPT ![QueueChannel] = mq.sent]
    /\ UNCHANGED <<configVars, handlerVars, enqueued, deliveryLog, emojiVars, avatarVars, llmVars>>

\* processQueue, the test of the while loop: the first item is shifted and
\* sent, or the loop ends and `processing` is reset.
queueWhileLoop(mq) ==
    IF Len(mq.queue) > 0
    THEN [mq EXCEPT !.queue = Tail(@),
                    !.current = [NoSend EXCEPT !.item = Head(mq.queue), !.phase = "fetch"],
                    !.sent = Append(@, Head(mq.queue).originalMessage)]
    ELSE [mq EXCEPT !.processing = FALSE, !.current = NoSend]

\* A plausible slip: the item is pushed and the queue is not sorted.
queueAddMessage_unsorted(mq, queuedMessage) ==
    LET mq1 == [mq EXCEPT !.queue = Append(@, queuedMessage)]
    IN  IF ~mq.processing THEN queueWhileLoop([mq1 EXCEPT !.processing = TRUE]) ELSE mq1

\* MessageQueue.addMessage up to its await: push, sort, and processQueue when
\* no drain is running.
queueAddMessage(mq, queuedMessage) ==
    LET mq1 == [mq EXCEPT !.queue = sortByTimestamp(Append(@, queuedMessage))]
    IN  IF ~mq.processing THEN queueWhileLoop([mq1 EXCEPT !.processing = TRUE]) ELSE mq1

QueueAddMessage(timestamp) ==
    LET mq == MessageQueueState
        id == Len(mq.sent) + Len(mq.queue) + 1
    IN  /\ id <= MaxCalls
        /\ SetMessageQueueState(queueAddMessage(mq,
              [NoItem EXCEPT !.originalMessage = id, !.targetChannelId = QueueChannel,
                             !.timestamp = timestamp]))

\* sendTranslatedMessage returns or throws (the catch of processQueue logs it)
\* and the loop goes on.
QueueSendSettles ==
    /\ sending[1].phase # "idle"
    /\ SetMessageQueueState(queueWhileLoop(MessageQueueState))

InitQueue ==
    /\ syncData = <<>>
    /\ InitPipeline
    /\ InitAvatarTables
    /\ fileExists = [p \in Paths |-> FALSE]

NextQueue ==
    \/ \E timestamp \in Timestamps : QueueAddMessage(timestamp)
    \/ QueueSendSettles

SpecQueue == InitQueue /\ [][NextQueue]_vars

Sorted(q) == \A j, k \in 1..Len(q) : j < k => q[j].timestamp <= q[k].timestamp

\* The items of q in the order of their timestamps and, for equal
\* timestamps, of their addMessage calls.
InSendOrder(x, y) ==
    \/ x.timestamp < y.timestamp
    \/ x.timestamp = y.timestamp /\ x.originalMessage < y.originalMessage

\* C35: the backlog is sorted by timestamp in every state, and an item that is
\* removed for sending has the smallest timestamp of the items of the queue at
\* that moment and, among the items with that timestamp, was enqueued first.
C35_RemovedItemIsOldest ==
    /\ [](Sorted(queue[QueueChannel]))
    /\ [][Len(sentLog'[QueueChannel]) > Len(sentLog[QueueChannel]) =>
            LET x == sending'[1].item
            IN  /\ x.originalMessage = sentLog'[QueueChannel][Len(sentLog'[QueueChannel])]
                /\ \A k \in 1..Len(queue'[QueueChannel]) : InSendOrder(x, queue'[QueueChannel][k])
                /\ \A k \in 1..Len(queue[QueueChannel]) :
                      x = queue[QueueChannel][k] \/ InSendOrder(x, queue[QueueChannel][k])]_vars

\* An item enqueued after another with a larger timestamp was sent before it,
\* and the item being sent was taken from among items of its own timestamp.
C35_Witness ==
    /\ \E j, k \in 1..Len(sentLog[QueueChannel]) :
          j < k /\ sentLog[QueueChannel][j] > sentLog[QueueChannel][k]
    /\ Len(queue[QueueChannel]) >= 1
    /\ queue[QueueChannel][1].timestamp = sending[1].item.timestamp
    /\ sending[1].item.originalMessage < queue[QueueChannel][1].originalMessage

(***************************************************************************)
(* WebhookService.getOrCreateWebhook for one channel.  The sends of a       *)
(* channel follow one another, so one call runs at a time; Discord's side  *)
(* (the webhooks of the channel, which others create and delete) changes   *)
(* at any time.                                                            *)
(***************************************************************************)
MaxWebhooks == 2
TranslatorName == "AI Dungeon Translator"
Bot == "client.user"

\* deleted: the webhook was in the channel and is gone (an id is never used again).
Webhook(id, owner, name) == [id |-> id, owner |-> owner, name |-> name, deleted |-> FALSE]

\* The webhooks of the channel.
Existing(webhooks) == {webhook \in webhooks : ~webhook.deleted}

\* The webhooks others can put in the channel: one of another owner with the
\* translator's name, and one the bot owns under another name.
ForeignWebhooks ==
    {Webhook(MaxWebhooks + 1, "other", TranslatorName), Webhook(MaxWebhooks + 2, Bot, "other")}

\* A plausible slip: the existing webhooks are not looked at.
botWebhooks_none(existingWebhooks) == {}

\* The webhooks `existingWebhooks.find(...)` can return: owned by the bot and
\* named 'AI Dungeon Translator'.
botWebhooks(existingWebhooks) ==
    {webhook \in Existing(existingWebhooks) :
        webhook.owner = Bot /\ webhook.name = TranslatorName}

WebhookUnchanged ==
    UNCHANGED <<pipelineVars, avatarVars, avatarCalls, storageCalls,
                serviceVars, validationVars, bridgeVars>>

\* The call returns `result` (NoWebhook: null).
returnWebhook(call, result) == [call EXCEPT !.pc = "returned", !.result = result]

\* getOrCreateWebhook(channelId) up to its first await: the validation of the
\* cached handle, or the fetch of the channel.
GetOrCreateWebhook ==
    /\ webhookCall.pc \in {"idle", "returned"}
    /\ webhookCall' = [pc |-> IF webhookCache # NoWebhook THEN "validate" ELSE "fetchChannel",
                       result |-> NoWebhook, cached |-> webhookCache,
                       evicted |-> FALSE, created |-> FALSE]
    /\ UNCHANGED <<webhookCache, channelWebhooks>>
    /\ WebhookUnchanged

\* `await this.webhookCache[channelId].fetch()` settles: the handle is
\* returned, or it is dropped from the cache and the call goes on.  The fetch
\* of a webhook that is gone fails; one of a webhook that exists can fail too.
ValidateSettles(ok) ==
    /\ webhookCall.pc = "validate"
    /\ ok => \E webhook \in Existing(channelWebhooks) : webhook.id = webhookCache
    /\ IF ok
       THEN /\ webhookCall' = returnWebhook(webhookCall, webhookCache)
            /\ UNCHANGED webhookCache
       ELSE /\ webhookCall' = [webhookCall EXCEPT !.pc = "fetchChannel", !.evicted = TRUE]
            /\ webhookCache' = NoWebhook
    /\ UNCHANGED channelWebhooks
    /\ WebhookUnchanged

ChannelOutcomes == {"text", "notText", "noPermission", "throws"}

\* `await this.client.channels.fetch(channelId)` settles, and the checks of
\* the channel and of the ManageWebhooks permission.
ChannelFetched(outcome) ==
    /\ webhookCall.pc = "fetchChannel"
    /\ webhookCall' = IF outcome = "text" THEN [webhookCall EXCEPT !.pc = "fetchWebhooks"]
                      ELSE returnWebhook(webhookCall, NoWebhook)
    /\ UNCHANGED <<webhookCache, channelWebhooks>>
    /\ WebhookUnchanged

\* `await channel.fetchWebhooks()` settles: a webhook of the bot is cached
\* and returned, or createWebhook is called.
WebhooksFetched(ok) ==
    /\ webhookCall.pc = "fetchWebhooks"
    /\ IF ~ok
       THEN /\ webhookCall' = returnWebhook(webhookCall, NoWebhook)
            /\ UNCHANGED webhookCache
       ELSE IF botWebhooks(channelWebhooks) # {}
       THEN \E botWebhook \in botWebhooks(channelWebhooks) :
                /\ webhookCache' = botWebhook.id
                /\ webhookCall' = returnWebhook(webhookCall, botWebhook.id)
       ELSE /\ webhookCall' = [webhookCall EXCEPT !.pc = "create"]
            /\ UNCHANGED webhookCache
    /\ UNCHANGED channelWebhooks
    /\ WebhookUnchanged

FreeWebhookIds == {id \in 1..MaxWebhooks : \A webhook \in channelWebhooks : webhook.id # id}

\* `await channel.createWebhook(...)` settles.
WebhookCreated(ok) ==
    /\ webhookCall.pc = "create"
    /\ IF ok
       THEN /\ FreeWebhookIds # {}
            /\ LET id == CHOOSE i \in FreeWebhookIds : \A j \in FreeWebhookIds : i <= j
               IN  /\ channelWebhooks' = channelWebhooks \cup {Webhook(id, Bot, TranslatorName)}
                   /\ webhookCache' = id
                   /\ webhookCall' = [returnWebhook(webhookCall, id) EXCEPT !.created = TRUE]
       ELSE /\ webhookCall' = returnWebhook(webhookCall, NoWebhook)
            /\ UNCHANGED <<webhookCache, channelWebhooks>>
    /\ WebhookUnchanged

\* Discord: a member of the guild deletes a webhook of the channel.
WebhookDeleted(webhook) ==
    /\ webhook \in Existing(channelWebhooks)
    /\ channelWebhooks' = (channelWebhooks \ {webhook}) \cup {[webhook EXCEPT !.deleted = TRUE]}
    /\ UNCHANGED <<webhookCache, webhookCall>>
    /\ WebhookUnchanged

\* Discord: a webhook the bot did not create for the translation appears.
WebhookAdded(webhook) ==
    /\ \A other \in channelWebhooks : other.id # webhook.id
    /\ channelWebhooks' = channelWebhooks \cup {webhook}
    /\ UNCHANGED <<webhookCache, webhookCall>>
    /\ WebhookUnchanged

InitWebhook ==
    /\ syncData = <<>>
    /\ InitPipeline
    /\ InitAvatarTables
    /\ fileExists = [p \in Paths |-> FALSE]

NextWebhook ==
    \/ GetOrCreateWebhook
    \/ \E ok \in BOOLEAN : ValidateSettles(ok)
    \/ \E outcome \in ChannelOutcomes : ChannelFetched(outcome)
    \/ \E ok \in BOOLEAN : WebhooksFetched(ok)
    \/ \E ok \in BOOLEAN : WebhookCreated(ok)
    \/ \E webhook \in Existing(channelWebhooks) : WebhookDeleted(webhook)
    \/ \E webhook \in ForeignWebhooks : WebhookAdded(webhook)

SpecWebhook == InitWebhook /\ [][NextWebhook]_vars

WebhookAt(place) == webhookCall.pc = place

====
